---- MODULE Spec2Model ----
(***************************************************************************)
(* Bank statement API backend: the in-memory job store (JobManager), the   *)
(* processing pipeline (ProcessingController.processStatement) and the     *)
(* cleanup service (CleanupService) with its scheduler, the result         *)
(* retrieval (ResultsController.getResult) and the validators, modelled    *)
(* with JavaScript reference semantics: a Job object holds a reference to  *)
(* its processedData object, and an await is a point where other requests  *)
(* run.                                                                    *)
(***************************************************************************)
EXTENDS Integers, Sequences, FiniteSets, TLC

\* ------------------------------------------------------------------ bounds
MaxJobs == 2
MaxTime == 3
MaxCalls == 2
\* The calls of startScheduledCleanup, and the sweeps counted per caller.
MaxStarts == 3
MaxSweeps == 2

\* ------------------------------------------------------- JavaScript values
\* A JavaScript value: undefined, null, a number (n), a string (s, its
\* characters) or a reference to a heap object (n).
Undef == [t |-> "undef", n |-> 0, s |-> <<>>]
Null == [t |-> "null", n |-> 0, s |-> <<>>]
Num(x) == [t |-> "num", n |-> x, s |-> <<>>]
Str(q) == [t |-> "str", n |-> 0, s |-> q]
Obj(r) == [t |-> "obj", n |-> r, s |-> <<>>]

\* !v for the values above: undefined, null, 0 and "" are falsy.
Falsy(v) ==
    \/ v.t \in {"undef", "null"}
    \/ v.t = "num" /\ v.n = 0
    \/ v.t = "str" /\ v.s = <<>>

\* -------------------------------------------------------------- the types
JobStatus ==
    [UPLOADED |-> "uploaded", PROCESSING |-> "processing",
     PROCESSED |-> "processed", FAILED |-> "failed"]

JobStatusValues ==
    {JobStatus.UPLOADED, JobStatus.PROCESSING, JobStatus.PROCESSED, JobStatus.FAILED}

\* new Job({...}): absent (undefined) arguments take the constructor's defaults.
Job(f) ==
    [jobId |-> f.jobId, fileName |-> f.fileName, s3Key |-> f.s3Key, status |-> f.status,
     accountsDetected |-> IF f.accountsDetected = Undef THEN Null ELSE f.accountsDetected,
     processedData |-> IF f.processedData = Undef THEN Null ELSE f.processedData,
     errorMessage |-> IF f.errorMessage = Undef THEN Null ELSE f.errorMessage,
     createdAt |-> f.createdAt, updatedAt |-> f.updatedAt]

JobIds == 1..MaxJobs
Times == 0..MaxTime

\* ------------------------------------------------------------------- state
VARIABLES
    jobs,      \* JobManager.jobs: jobId -> the stored Job object
    heap,      \* the processedData objects: reference -> statement data
    nextId,    \* the next jobId uuidv4() gives
    now,       \* the clock
    held,      \* the objects a client of the store got back and still holds
    lastOp,    \* the store operation a client ran last, and how it ended
    files,     \* the storage collaborator: the keys of the stored files
    calls,     \* the processStatement requests: where each is, its locals, its response
    sweep,     \* performCleanup: where it is, its locals, its stats
    byId,      \* cleanupJobById: where it is, its locals, its result
    devFallback, \* NODE_ENV is development and ALLOW_LEGACY_PDF_VERSIONS is true
    scheduler, \* CleanupService: cleanupIntervals, isShuttingDown, the timers, the calls
    result,    \* ResultsController.getResult: the response of the last request
    probe,     \* a validator applied to an input: the function, the input, the value
    gemini,    \* GeminiService.normalizeTextractData: where it is, its attempts
    ondemand   \* a further on-demand cleanup call: where it is, its locals, its result

storeVars == <<jobs, heap, nextId, now>>
clientVars == <<held, lastOp>>
serviceVars == <<scheduler, result, probe, gemini, ondemand>>
appVars == <<files, calls, sweep, byId, devFallback, serviceVars>>
vars == <<jobs, heap, nextId, now, held, lastOp, files, calls, sweep, byId, devFallback, serviceVars>>

\* ------------------------------------------------------------- JobManager
\* The operations take the Map this.jobs (jobId -> stored Job object) as `map`
\* and give the Map after the call. A Date is modelled by its getTime().

\* A faulty transition table: a processed job may be processed again.
validTransitionsReopen(currentStatus) ==
    CASE currentStatus = JobStatus.UPLOADED -> {JobStatus.PROCESSING, JobStatus.FAILED}
      [] currentStatus = JobStatus.PROCESSING -> {JobStatus.PROCESSED, JobStatus.FAILED}
      [] currentStatus = JobStatus.PROCESSED -> {JobStatus.PROCESSING}
      [] currentStatus = JobStatus.FAILED -> {}
      [] OTHER -> {}

\* validTransitions[currentStatus] || []
validTransitions(currentStatus) ==
    CASE currentStatus = JobStatus.UPLOADED -> {JobStatus.PROCESSING, JobStatus.FAILED}
      [] currentStatus = JobStatus.PROCESSING -> {JobStatus.PROCESSED, JobStatus.FAILED}
      [] currentStatus = JobStatus.PROCESSED -> {}
      [] currentStatus = JobStatus.FAILED -> {}
      [] OTHER -> {}

\* A faulty transition check: an update to the status the job already has passes.
validateStatusTransitionSame(currentStatus, newStatus) ==
    newStatus = currentStatus \/ newStatus \in validTransitions(currentStatus)

\* A faulty transition check: a failed job may be taken up again.
validateStatusTransitionRetry(currentStatus, newStatus) ==
    \/ newStatus \in validTransitions(currentStatus)
    \/ currentStatus = JobStatus.FAILED /\ newStatus = JobStatus.PROCESSING

\* _validateStatusTransition: TRUE when it does not throw.
validateStatusTransition(currentStatus, newStatus) ==
    newStatus \in validTransitions(currentStatus)

\* createJob(fileName, s3Key) at time t with uuidv4() = id. The value it
\* returns is the stored object itself.
createJob(map, id, fileName, s3Key, t) ==
    IF Falsy(fileName) \/ fileName.t # "str" \/ Falsy(s3Key) \/ s3Key.t # "str"
    THEN [ok |-> FALSE, error |-> "Failed to create job", jobs |-> map]
    ELSE [ok |-> TRUE, error |-> "",
          jobs |-> (id :> Job([jobId |-> id, fileName |-> fileName, s3Key |-> s3Key,
                               status |-> JobStatus.UPLOADED,
                               accountsDetected |-> Undef, processedData |-> Undef,
                               errorMessage |-> Undef,
                               createdAt |-> t, updatedAt |-> t])) @@ map]

\* The additionalData of an updateJobStatus call: a field is Undef when absent.
NoData == [accountsDetected |-> Undef, processedData |-> Undef, errorMessage |-> Undef]

\* A faulty updateJobStatus: the status and the time are assigned before the
\* transition is validated.
updateJobStatusAssignFirst(map, jobId, status, additionalData, t) ==
    IF status \notin JobStatusValues
    THEN [ok |-> FALSE, error |-> "Invalid status", jobs |-> map]
    ELSE IF jobId \notin DOMAIN map
    THEN [ok |-> FALSE, error |-> "Job not found", jobs |-> map]
    ELSE IF ~validateStatusTransition(map[jobId].status, status)
    THEN [ok |-> FALSE, error |-> "Invalid status transition",
          jobs |-> [map EXCEPT ![jobId].status = status, ![jobId].updatedAt = t]]
    ELSE
      [ok |-> TRUE, error |-> "",
       jobs |-> [map EXCEPT
                   ![jobId].status = status,
                   ![jobId].updatedAt = t,
                   ![jobId].accountsDetected =
                      IF additionalData.accountsDetected # Undef
                      THEN additionalData.accountsDetected ELSE @,
                   ![jobId].processedData =
                      IF additionalData.processedData # Undef
                      THEN additionalData.processedData ELSE @,
                   ![jobId].errorMessage =
                      IF additionalData.errorMessage # Undef
                      THEN additionalData.errorMessage ELSE @]]

\* A faulty updateJobStatus: a job that is not stored is created by the update.
updateJobStatusUpsert(map, jobId, status, additionalData, t) ==
    IF status \notin JobStatusValues
    THEN [ok |-> FALSE, error |-> "Invalid status", jobs |-> map]
    ELSE IF jobId \notin DOMAIN map
    THEN [ok |-> TRUE, error |-> "",
          jobs |-> (jobId :> Job([jobId |-> jobId, fileName |-> Undef, s3Key |-> Undef,
                                  status |-> status,
                                  accountsDetected |-> additionalData.accountsDetected,
                                  processedData |-> additionalData.processedData,
                                  errorMessage |-> additionalData.errorMessage,
                                  createdAt |-> t, updatedAt |-> t])) @@ map]
    ELSE IF ~validateStatusTransition(map[jobId].status, status)
    THEN [ok |-> FALSE, error |-> "Invalid status transition", jobs |-> map]
    ELSE
      [ok |-> TRUE, error |-> "",
       jobs |-> [map EXCEPT
                   ![jobId].status = status,
                   ![jobId].updatedAt = t,
                   ![jobId].accountsDetected =
                      IF additionalData.accountsDetected # Undef
                      THEN additionalData.accountsDetected ELSE @,
                   ![jobId].processedData =
                      IF additionalData.processedData # Undef
                      THEN additionalData.processedData ELSE @,
                   ![jobId].errorMessage =
                      IF additionalData.errorMessage # Undef
                      THEN additionalData.errorMessage ELSE @]]

\* updateJobStatus(jobId, status, additionalData) at time t.
updateJobStatus(map, jobId, status, additionalData, t) ==
    IF status \notin JobStatusValues
    THEN [ok |-> FALSE, error |-> "Invalid status", jobs |-> map]
    ELSE IF jobId \notin DOMAIN map
    THEN [ok |-> FALSE, error |-> "Job not found", jobs |-> map]
    ELSE IF ~validateStatusTransition(map[jobId].status, status)
    THEN [ok |-> FALSE, error |-> "Invalid status transition", jobs |-> map]
    ELSE
      [ok |-> TRUE, error |-> "",
       jobs |-> [map EXCEPT
                   ![jobId].status = status,
                   ![jobId].updatedAt = t,
                   ![jobId].accountsDetected =
                      IF additionalData.accountsDetected # Undef
                      THEN additionalData.accountsDetected ELSE @,
                   ![jobId].processedData =
                      IF additionalData.processedData # Undef
                      THEN additionalData.processedData ELSE @,
                   ![jobId].errorMessage =
                      IF additionalData.errorMessage # Undef
                      THEN additionalData.errorMessage ELSE @]]

\* The copy getJobResult and getAllJobs build: new Job({...}) of the stored
\* object's fields; processedData is copied as the reference it is.
JobCopy(job) ==
    Job([jobId |-> job.jobId, fileName |-> job.fileName, s3Key |-> job.s3Key,
         status |-> job.status, accountsDetected |-> job.accountsDetected,
         processedData |-> job.processedData, errorMessage |-> job.errorMessage,
         createdAt |-> job.createdAt, updatedAt |-> job.updatedAt])

\* getJobResult(jobId)
getJobResult(map, jobId) ==
    IF jobId \notin DOMAIN map
    THEN [ok |-> FALSE, error |-> "Job not found"]
    ELSE [ok |-> TRUE, error |-> "", job |-> JobCopy(map[jobId])]

\* Array.from(this.jobs.values()): the Map iterates in insertion order, which
\* is the order of the ids handed out.
RECURSIVE JobsFrom(_, _)
JobsFrom(map, i) ==
    IF i > MaxJobs THEN <<>>
    ELSE (IF i \in DOMAIN map THEN <<JobCopy(map[i])>> ELSE <<>>) \o JobsFrom(map, i + 1)

\* getAllJobs()
getAllJobs(map) == JobsFrom(map, 1)

\* deleteJob(jobId): this.jobs.delete(jobId)
deleteJob(map, jobId) ==
    [deleted |-> jobId \in DOMAIN map,
     jobs |-> [k \in DOMAIN map \ {jobId} |-> map[k]]]

\* ------------------------------------------------------------- validators
\* The characters of a string are one-character strings; a message is a
\* sequence of longer pieces of text.
Digits == {"0", "1", "2", "3", "4", "5", "6", "7", "8", "9"}

DigitVal(c) ==
    CASE c = "0" -> 0 [] c = "1" -> 1 [] c = "2" -> 2 [] c = "3" -> 3 [] c = "4" -> 4
      [] c = "5" -> 5 [] c = "6" -> 6 [] c = "7" -> 7 [] c = "8" -> 8 [] c = "9" -> 9

DigitChar(d) ==
    CASE d = 0 -> "0" [] d = 1 -> "1" [] d = 2 -> "2" [] d = 3 -> "3" [] d = 4 -> "4"
      [] d = 5 -> "5" [] d = 6 -> "6" [] d = 7 -> "7" [] d = 8 -> "8" [] d = 9 -> "9"

IsDigits(q) == \A i \in 1..Len(q) : q[i] \in Digits

\* Number(q) of a string of digits.
RECURSIVE ToInt(_)
ToInt(q) == IF q = <<>> THEN 0 ELSE 10 * ToInt(SubSeq(q, 1, Len(q) - 1)) + DigitVal(q[Len(q)])

\* String(n) of an integer n >= 0.
RECURSIVE IntToChars(_)
IntToChars(n) == IF n < 10 THEN <<DigitChar(n)>> ELSE IntToChars(n \div 10) \o <<DigitChar(n % 10)>>

\* String(n).padStart(2, '0')
PadStart2(n) == IF n < 10 THEN <<"0">> \o IntToChars(n) ELSE IntToChars(n)

\* q.split(sep)
RECURSIVE SplitOn(_, _)
SplitOn(q, sep) ==
    IF \A i \in 1..Len(q) : q[i] # sep THEN <<q>>
    ELSE LET i == CHOOSE k \in 1..Len(q) : q[k] = sep /\ \A m \in 1..(k - 1) : q[m] # sep
         IN <<SubSeq(q, 1, i - 1)>> \o SplitOn(SubSeq(q, i + 1, Len(q)), sep)

\* /^\d{4}-\d{2}-\d{2}$/
isoDatePattern(q) ==
    /\ Len(q) = 10
    /\ q[5] = "-" /\ q[8] = "-"
    /\ \A i \in {1, 2, 3, 4, 6, 7, 9, 10} : q[i] \in Digits

\* /^(\d{a1,b1})<sep>(\d{a2,b2})<sep>(\d{a3,b3})$/ : the three groups, or <<>>.
MatchThree(q, sep, lens) ==
    LET parts == SplitOn(q, sep)
    IN IF /\ Len(parts) = 3
          /\ \A i \in 1..3 : IsDigits(parts[i]) /\ Len(parts[i]) \in lens[i]
       THEN parts ELSE <<>>

IsLeap(y) == (y % 4 = 0 /\ y % 100 # 0) \/ y % 400 = 0

DaysInMonth(y, m) ==
    IF m = 2 THEN (IF IsLeap(y) THEN 29 ELSE 28)
    ELSE IF m \in {4, 6, 9, 11} THEN 30 ELSE 31

\* The year, month (1..12) and day of month months (0-based) and day counted
\* from the start of year y, as the Date constructor carries them over.
RECURSIVE CarryDay(_, _, _)
CarryDay(y, m, d) ==
    IF d < 1 THEN
        (IF m = 1 THEN CarryDay(y - 1, 12, d + 31)
         ELSE CarryDay(y, m - 1, d + DaysInMonth(y, m - 1)))
    ELSE IF d > DaysInMonth(y, m) THEN
        (IF m = 12 THEN CarryDay(y + 1, 1, d - 31)
         ELSE CarryDay(y, m + 1, d - DaysInMonth(y, m)))
    ELSE [year |-> y, month |-> m, day |-> d]

\* new Date(year, monthIndex, day) for numeric strings: a year 0..99 is
\* 1900 + year, a month index or a day out of range carries over.
NewDateYMD(year, monthIndex, day) ==
    LET y0 == IF year \in 0..99 THEN 1900 + year ELSE year
        total == y0 * 12 + monthIndex
    IN CarryDay(total \div 12, (total % 12) + 1, day)

\* new Date("YYYY-MM-DD") is a date (not NaN): the engine's ISO parser takes
\* a month 01..12 and a day 01..31.
IsoDateParses(q) ==
    LET m == ToInt(SubSeq(q, 6, 7))
        d == ToInt(SubSeq(q, 9, 10))
    IN m \in 1..12 /\ d \in 1..31

\* The first of commonFormats that dateValue matches: <<index, groups>>.
CommonFormatMatch(q) ==
    LET f1 == MatchThree(q, "/", <<{1, 2}, {1, 2}, {4}>>)
        f2 == MatchThree(q, "-", <<{1, 2}, {1, 2}, {4}>>)
        f3 == MatchThree(q, "/", <<{4}, {1, 2}, {1, 2}>>)
        f4 == MatchThree(q, ".", <<{1, 2}, {1, 2}, {4}>>)
    IN IF f1 # <<>> THEN <<1, f1>>
       ELSE IF f2 # <<>> THEN <<2, f2>>
       ELSE IF f3 # <<>> THEN <<3, f3>>
       ELSE IF f4 # <<>> THEN <<4, f4>>
       ELSE <<0, <<>>>>

\* new Date(dateValue), the fallback for a string no format matches: a string
\* without a digit is not a date (NaN), the only such strings modelled.
FallbackParses(q) == FALSE

\* validateAndFormatDate(dateValue)
validateAndFormatDate(dateValue) ==
    IF dateValue.t \in {"null", "undef"} THEN [isValid |-> TRUE, value |-> Null, error |-> <<>>]
    ELSE IF dateValue.t # "str"
    THEN [isValid |-> FALSE, value |-> Undef, error |-> <<"Date must be a string or null">>]
    ELSE IF isoDatePattern(dateValue.s) THEN
        (IF IsoDateParses(dateValue.s)
         THEN [isValid |-> TRUE, value |-> dateValue, error |-> <<>>]
         ELSE [isValid |-> FALSE, value |-> Undef, error |-> <<"Invalid date value">>])
    ELSE
      LET mt == CommonFormatMatch(dateValue.s)
          g == mt[2]
          parsedDate ==
            IF mt[1] = 3 THEN NewDateYMD(ToInt(g[1]), ToInt(g[2]) - 1, ToInt(g[3]))
            ELSE NewDateYMD(ToInt(g[3]), ToInt(g[2]) - 1, ToInt(g[1]))
      IN IF mt[1] = 0 /\ ~FallbackParses(dateValue.s)
         THEN [isValid |-> FALSE, value |-> Undef, error |-> <<"Unable to parse date value">>]
         ELSE [isValid |-> TRUE, error |-> <<>>,
               value |-> Str(IntToChars(parsedDate.year) \o <<"-">>
                             \o PadStart2(parsedDate.month) \o <<"-">>
                             \o PadStart2(parsedDate.day))]

\* A number that is not finite (NaN, Infinity): typeof is 'number'.
NotFinite == [t |-> "nan", n |-> 0, s |-> <<>>]
\* A boolean: a value that is neither a number, a string nor null.
Bool(b) == [t |-> "bool", n |-> IF b THEN 1 ELSE 0, s |-> <<>>]

\* amount.replace(/[$£€¥₹,\s]/g, '').replace(/[()]/g, '').trim()
StrippedChars == {"$", "£", "€", "¥", "₹", ",", " ", "(", ")"}

cleanAmount(q) == SelectSeq(q, LAMBDA c : c \notin StrippedChars)

\* The longest prefix of q made of digits.
RECURSIVE DigitPrefix(_)
DigitPrefix(q) ==
    IF q = <<>> \/ q[1] \notin Digits THEN <<>> ELSE <<q[1]>> \o DigitPrefix(Tail(q))

\* parseFloat(q): an optional sign, digits, an optional point and digits; the
\* text after that is ignored. A number is kept in hundredths (two decimals).
parseFloat(q) ==
    LET neg == q # <<>> /\ q[1] = "-"
        body == IF q # <<>> /\ q[1] \in {"-", "+"} THEN Tail(q) ELSE q
        int == DigitPrefix(body)
        rest == SubSeq(body, Len(int) + 1, Len(body))
        frac == IF rest # <<>> /\ rest[1] = "." THEN DigitPrefix(Tail(rest)) ELSE <<>>
        f2 == SubSeq(frac \o <<"0", "0">>, 1, 2)
        mag == 100 * ToInt(int) + ToInt(f2)
    IN IF int = <<>> /\ frac = <<>> THEN NotFinite
       ELSE Num(IF neg THEN 0 - mag ELSE mag)

\* validateMonetaryAmount(amount)
validateMonetaryAmount(amount) ==
    IF amount.t \in {"null", "undef"} THEN [isValid |-> TRUE, value |-> Null, error |-> <<>>]
    ELSE IF amount.t = "num" THEN [isValid |-> TRUE, value |-> amount, error |-> <<>>]
    ELSE IF amount.t = "nan"
    THEN [isValid |-> FALSE, value |-> Undef,
          error |-> <<"Monetary amount must be a finite number">>]
    ELSE IF amount.t = "str" THEN
        (IF cleanAmount(amount.s) = <<>> THEN [isValid |-> TRUE, value |-> Null, error |-> <<>>]
         ELSE IF parseFloat(cleanAmount(amount.s)).t = "nan"
         THEN [isValid |-> FALSE, value |-> Undef,
               error |-> <<"Unable to convert monetary amount to valid number">>]
         ELSE [isValid |-> TRUE, value |-> parseFloat(cleanAmount(amount.s)), error |-> <<>>])
    ELSE [isValid |-> FALSE, value |-> Undef,
          error |-> <<"Monetary amount must be a number, string, or null">>]

\* A transaction object; isObject is FALSE for a value that is no object.
Transaction(date, description, debit, credit, balance) ==
    [isObject |-> TRUE, date |-> date, description |-> description,
     debit |-> debit, credit |-> credit, balance |-> balance]

NotAnObject(o) == [o EXCEPT !.isObject = FALSE]

\* A faulty validateDebitCreditExclusivity: every transaction object passes.
validateDebitCreditExclusivityLax(transaction) ==
    IF ~transaction.isObject
    THEN [isValid |-> FALSE, error |-> <<"Transaction must be an object">>]
    ELSE [isValid |-> TRUE, error |-> <<>>]

\* validateDebitCreditExclusivity(transaction)
validateDebitCreditExclusivity(transaction) ==
    IF ~transaction.isObject
    THEN [isValid |-> FALSE, error |-> <<"Transaction must be an object">>]
    ELSE IF transaction.debit.t \notin {"null", "undef"}
            /\ transaction.credit.t \notin {"null", "undef"}
    THEN [isValid |-> FALSE,
          error |-> <<"Transaction cannot have both debit and credit values populated">>]
    ELSE [isValid |-> TRUE, error |-> <<>>]

\* The assignments of validateTransaction: a field that validated takes the
\* validated value.
TransactionAfter(transaction, dateValidation, debitValidation, creditValidation, balanceValidation) ==
    [transaction EXCEPT
       !.date = IF dateValidation.isValid THEN dateValidation.value ELSE @,
       !.debit = IF debitValidation.isValid THEN debitValidation.value ELSE @,
       !.credit = IF creditValidation.isValid THEN creditValidation.value ELSE @,
       !.balance = IF balanceValidation.isValid THEN balanceValidation.value ELSE @]

\* errors.join('; ') of the errors before (a) and one more (b); either may be
\* absent.
JoinErrors(a, b) ==
    IF a = <<>> THEN b ELSE IF b = <<>> THEN a ELSE a \o <<"; ">> \o b

\* The errors validateTransaction collects, joined.
TransactionErrors(transaction, dateValidation, debitValidation, creditValidation, balanceValidation, exclusivityValidation) ==
    JoinErrors(JoinErrors(JoinErrors(JoinErrors(JoinErrors(
        (IF dateValidation.isValid THEN <<>>
         ELSE <<"Date validation failed: ">> \o dateValidation.error),
        (IF Falsy(transaction.description) \/ transaction.description.t # "str"
         THEN <<"Description must be a non-empty string">> ELSE <<>>)),
        (IF debitValidation.isValid THEN <<>>
         ELSE <<"Debit validation failed: ">> \o debitValidation.error)),
        (IF creditValidation.isValid THEN <<>>
         ELSE <<"Credit validation failed: ">> \o creditValidation.error)),
        (IF balanceValidation.isValid THEN <<>>
         ELSE <<"Balance validation failed: ">> \o balanceValidation.error)),
        exclusivityValidation.error)

\* The value validateTransaction returns, with the argument object as it is left.
TransactionResult(errors, after) ==
    [isValid |-> errors = <<>>, error |-> errors, after |-> after]

\* validateTransaction from the exclusivity check on: it reads the object the
\* assignments before it have changed.
TransactionChecked(transaction, after, dateValidation, debitValidation, creditValidation, balanceValidation) ==
    TransactionResult(
        TransactionErrors(transaction, dateValidation, debitValidation, creditValidation,
                          balanceValidation, validateDebitCreditExclusivity(after)),
        after)

\* validateTransaction once the four fields are validated.
TransactionValidated(transaction, dateValidation, debitValidation, creditValidation, balanceValidation) ==
    TransactionChecked(
        transaction,
        TransactionAfter(transaction, dateValidation, debitValidation, creditValidation,
                         balanceValidation),
        dateValidation, debitValidation, creditValidation, balanceValidation)

\* validateTransaction(transaction): its result, and in "after" the argument
\* object as the call leaves it (the fields that validated are assigned).
validateTransaction(transaction) ==
    IF ~transaction.isObject
    THEN [isValid |-> FALSE, error |-> <<"Transaction must be an object">>,
          after |-> transaction]
    ELSE TransactionValidated(transaction,
                              validateAndFormatDate(transaction.date),
                              validateMonetaryAmount(transaction.debit),
                              validateMonetaryAmount(transaction.credit),
                              validateMonetaryAmount(transaction.balance))

\* An array value; isArray is FALSE for a value that is no array.
Arr(items) == [isArray |-> TRUE, items |-> items]
NotAnArray == [isArray |-> FALSE, items |-> <<>>]

\* The errors of the transactions up to the i-th, each under its index.
RECURSIVE TransactionsErrors(_, _)
TransactionsErrors(res, i) ==
    IF i = 0 THEN <<>>
    ELSE JoinErrors(TransactionsErrors(res, i - 1),
                    IF res[i].isValid THEN <<>>
                    ELSE <<"Transaction ">> \o IntToChars(i - 1) \o <<": ">> \o res[i].error)

\* The value validateAccountTransactions returns once every element is
\* validated (res: the results in order).
TransactionsResult(res, errors) ==
    [isValid |-> errors = <<>>, error |-> errors,
     value |-> [i \in DOMAIN res |-> res[i].after],
     after |-> Arr([i \in DOMAIN res |-> res[i].after])]

TransactionsValidated(res) == TransactionsResult(res, TransactionsErrors(res, Len(res)))

\* validateAccountTransactions(transactions): its result (value: the validated
\* transactions) and in "after" the argument's elements as the call leaves them.
validateAccountTransactions(transactions) ==
    IF ~transactions.isArray
    THEN [isValid |-> FALSE, error |-> <<"Transactions must be an array">>,
          value |-> <<>>, after |-> transactions]
    ELSE TransactionsValidated(
            [i \in 1..Len(transactions.items) |-> validateTransaction(transactions.items[i])])

\* ---------------------------------------------------- the statement data
\* A bank account object of the normalized data.
BankAccount(f) ==
    [isObject |-> TRUE, bankName |-> f.bankName, accountHolderName |-> f.accountHolderName,
     accountNumber |-> f.accountNumber, accountType |-> f.accountType,
     currency |-> f.currency, statementStartDate |-> f.statementStartDate,
     statementEndDate |-> f.statementEndDate, openingBalance |-> f.openingBalance,
     closingBalance |-> f.closingBalance, transactions |-> f.transactions]

\* The normalized data object: { fileName, accounts }.
BankStatementData(fileName, accounts) ==
    [isObject |-> TRUE, fileName |-> fileName, accounts |-> accounts]

\* One monetary or date field of an account: validated and assigned when it is
\* neither null nor undefined.
CheckField(v, validation) ==
    IF v.t \in {"null", "undef"} THEN [ok |-> TRUE, value |-> v, error |-> <<>>]
    ELSE IF validation.isValid THEN [ok |-> TRUE, value |-> validation.value, error |-> <<>>]
    ELSE [ok |-> FALSE, value |-> v, error |-> validation.error]

\* throw new Error(`Account ${index} ...`) out of the forEach body, with the
\* account object as it is at the throw.
AccountThrows(account, idx, what, detail) ==
    [ok |-> FALSE, after |-> account, error |-> <<"Account ">> \o idx \o <<what>> \o detail]

\* The forEach body from the account type check on.
AccountTypeChecked(account, idx) ==
    IF account.accountType.t \notin {"null", "undef"}
       /\ account.accountType \notin {Str(<<"Savings">>), Str(<<"Current">>)}
    THEN AccountThrows(account, idx, " has invalid account type", <<>>)
    ELSE [ok |-> TRUE, after |-> account, error |-> <<>>]

\* ... from the statementEndDate check on (ed: its validation).
AccountEndDateChecked(account, idx, ed) ==
    IF ~ed.ok THEN AccountThrows(account, idx, " statementEndDate validation failed: ", ed.error)
    ELSE AccountTypeChecked([account EXCEPT !.statementEndDate = ed.value], idx)

\* ... from the statementStartDate check on (sd: its validation).
AccountStartDateChecked(account, idx, sd) ==
    IF ~sd.ok
    THEN AccountThrows(account, idx, " statementStartDate validation failed: ", sd.error)
    ELSE AccountEndDateChecked(
            [account EXCEPT !.statementStartDate = sd.value], idx,
            CheckField(account.statementEndDate, validateAndFormatDate(account.statementEndDate)))

\* ... from the closingBalance check on (cb: its validation).
AccountClosingChecked(account, idx, cb) ==
    IF ~cb.ok THEN AccountThrows(account, idx, " closingBalance validation failed: ", cb.error)
    ELSE AccountStartDateChecked(
            [account EXCEPT !.closingBalance = cb.value], idx,
            CheckField(account.statementStartDate,
                       validateAndFormatDate(account.statementStartDate)))

\* ... from the openingBalance check on (ob: its validation).
AccountOpeningChecked(account, idx, ob) ==
    IF ~ob.ok THEN AccountThrows(account, idx, " openingBalance validation failed: ", ob.error)
    ELSE AccountClosingChecked(
            [account EXCEPT !.openingBalance = ob.value], idx,
            CheckField(account.closingBalance, validateMonetaryAmount(account.closingBalance)))

\* ... from the check of the transactions' validation (tv) on; the elements of
\* account.transactions are left as validateAccountTransactions left them.
AccountTransactionsChecked(account, idx, tv) ==
    IF ~tv.isValid
    THEN AccountThrows([account EXCEPT !.transactions = tv.after], idx,
                       " transaction validation failed: ", tv.error)
    ELSE AccountOpeningChecked(
            [account EXCEPT !.transactions = tv.after], idx,
            CheckField(account.openingBalance, validateMonetaryAmount(account.openingBalance)))

\* The body of data.accounts.forEach in _validateNormalizedData for one
\* account: whether it throws, and the account object as it leaves it.
validateAccount(account, index) ==
    IF ~account.isObject
    THEN AccountThrows(account, IntToChars(index), " must be an object", <<>>)
    ELSE IF ~account.transactions.isArray
    THEN AccountThrows(account, IntToChars(index), " must have a transactions array", <<>>)
    ELSE AccountTransactionsChecked(account, IntToChars(index),
                                    validateAccountTransactions(account.transactions))

\* data.accounts.forEach(...) from the i-th account on: the first throw ends
\* it, and the accounts before it stay as validated.
RECURSIVE validateAccountsFrom(_, _)
\* The forEach after the body ran for the i-th account with result r.
AccountValidated(items, i, r) ==
    IF r.ok THEN validateAccountsFrom([items EXCEPT ![i] = r.after], i + 1)
    ELSE [ok |-> FALSE, items |-> [items EXCEPT ![i] = r.after], error |-> r.error]

validateAccountsFrom(items, i) ==
    IF i > Len(items) THEN [ok |-> TRUE, items |-> items, error |-> <<>>]
    ELSE AccountValidated(items, i, validateAccount(items[i], i - 1))

\* _validateNormalizedData once the forEach has run with result r.
AccountsValidated(data, r) ==
    [ok |-> r.ok, error |-> r.error, after |-> [data EXCEPT !.accounts = Arr(r.items)]]

\* _validateNormalizedData(data): ok is FALSE when it throws (error: the
\* message), and "after" is the data object as the call leaves it.
validateNormalizedData(data) ==
    IF ~data.isObject
    THEN [ok |-> FALSE, after |-> data, error |-> <<"Normalized data must be an object">>]
    ELSE IF Falsy(data.fileName) \/ data.fileName.t # "str"
    THEN [ok |-> FALSE, after |-> data,
          error |-> <<"Normalized data must include a valid fileName">>]
    ELSE IF ~data.accounts.isArray
    THEN [ok |-> FALSE, after |-> data,
          error |-> <<"Normalized data must include an accounts array">>]
    ELSE AccountsValidated(data, validateAccountsFrom(data.accounts.items, 1))

\* ------------------------------------------------- ProcessingController
Calls == 1..MaxCalls

\* The error codes of the AppErrors processStatement throws; a plain Error
\* (not an AppError) carries no code.
PlainError == "ERROR"
StageFailureCodes ==
    {"S3_RETRIEVAL_FAILED", "TEXTRACT_ANALYSIS_FAILED", "GEMINI_NORMALIZATION_FAILED",
     "DATA_VALIDATION_FAILED"}

\* The text _handleProcessingError is given for each failure code.
StageMessage(code) ==
    CASE code = "S3_RETRIEVAL_FAILED" -> "Failed to retrieve PDF from S3: "
      [] code = "TEXTRACT_ANALYSIS_FAILED" -> "Textract analysis failed: "
      [] code = "GEMINI_NORMALIZATION_FAILED" -> "Gemini normalization failed: "
      [] code = "DATA_VALIDATION_FAILED" -> "Data validation failed: "

\* A job object no request holds: the value of `job` before getJobResult.
NoJob ==
    Job([jobId |-> 0, fileName |-> Null, s3Key |-> Null, status |-> "",
         accountsDetected |-> Null, processedData |-> Null, errorMessage |-> Null,
         createdAt |-> 0, updatedAt |-> 0])

NoResponse ==
    [kind |-> "none", code |-> "", jobId |-> 0, status |-> "", accountsDetected |-> Null]

\* An error response: the AppError's code, and for INVALID_JOB_STATUS the
\* currentStatus of its details.
ErrorResponse(code, currentStatus) ==
    [kind |-> "error", code |-> code, jobId |-> 0, status |-> currentStatus,
     accountsDetected |-> Null]

\* new ProcessResponse({ jobId, status, accountsDetected }), sent with 200.
ProcessResponse(jobId, status, accountsDetected) ==
    [kind |-> "ok", code |-> "", jobId |-> jobId, status |-> status,
     accountsDetected |-> accountsDetected]

IdleCall ==
    [pc |-> "idle", jobId |-> 0, job |-> NoJob, response |-> NoResponse,
     log |-> <<>>, advanced |-> FALSE, accountsDetected |-> Null]

\* A faulty _handleProcessingError: the failure is logged and the job is left
\* as it is.
handleProcessingErrorLogsOnly(map, jobId, errorCode, detail, t) == map

\* _handleProcessingError(jobId, errorCode, errorMessage, originalError): the
\* store after it; a failure of updateJobStatus is caught and logged.
handleProcessingError(map, jobId, errorCode, detail, t) ==
    updateJobStatus(map, jobId, JobStatus.FAILED,
                    [NoData EXCEPT !.errorMessage = Str(<<StageMessage(errorCode)>> \o detail)],
                    t).jobs

\* The request ends with the stage failure `code`: _handleProcessingError, then
\* throw new AppError(..., code, { jobId }).
FailStage(c, code, detail) ==
    /\ jobs' = handleProcessingError(jobs, calls[c].jobId, code, detail, now)
    /\ calls' = [calls EXCEPT ![c].pc = "done", ![c].job = NoJob,
                              ![c].response = ErrorResponse(code, "")]

\* processStatement, to its first await: getJobResult(jobId).
ProcessStart(c, jobId) ==
    /\ calls[c].pc = "idle"
    /\ \A d \in 1..(c - 1) : calls[d].pc # "idle"
    /\ LET r == getJobResult(jobs, jobId)
       IN calls' = [calls EXCEPT ![c] =
            IF r.ok
            THEN [@ EXCEPT !.pc = "check", !.jobId = jobId, !.job = r.job]
            ELSE [@ EXCEPT !.pc = "done", !.jobId = jobId,
                           !.response = ErrorResponse("JOB_NOT_FOUND", "")]]
    /\ UNCHANGED <<storeVars, clientVars, files, sweep, byId, devFallback, serviceVars>>

\* A faulty processStatement: the request yields between the status check and
\* updateJobStatus(jobId, PROCESSING).
ProcessCheckSplit(c) ==
    /\ calls[c].pc \in {"check", "checked"}
    /\ IF calls[c].pc = "check"
       THEN /\ calls' = [calls EXCEPT ![c] =
                    IF calls[c].job.status # JobStatus.UPLOADED
                    THEN [@ EXCEPT !.pc = "done", !.job = NoJob,
                                   !.response = ErrorResponse("INVALID_JOB_STATUS",
                                                              calls[c].job.status)]
                    ELSE [@ EXCEPT !.pc = "checked"]]
            /\ UNCHANGED jobs
       ELSE LET r == updateJobStatus(jobs, calls[c].jobId, JobStatus.PROCESSING, NoData, now)
            IN /\ jobs' = r.jobs
               /\ calls' = [calls EXCEPT ![c] =
                    IF r.ok THEN [@ EXCEPT !.pc = "getFile", !.advanced = TRUE,
                                           !.log = Append(@, "getFile")]
                    ELSE [@ EXCEPT !.pc = "done", !.job = NoJob,
                                   !.response = ErrorResponse(PlainError, "")]]
    /\ UNCHANGED <<heap, nextId, now, clientVars, files, sweep, byId, devFallback, serviceVars>>

\* After getJobResult: the status check on the copy, then
\* updateJobStatus(jobId, PROCESSING) and, when that await resumes, stage 1:
\* storageService.getFile(job.s3Key) is called. A throw of updateJobStatus is
\* not caught: the request ends with that Error.
ProcessCheck(c) ==
    /\ calls[c].pc = "check"
    /\ IF calls[c].job.status # JobStatus.UPLOADED
       THEN /\ calls' = [calls EXCEPT ![c].pc = "done", ![c].job = NoJob,
                           ![c].response = ErrorResponse("INVALID_JOB_STATUS",
                                                         calls[c].job.status)]
            /\ UNCHANGED jobs
       ELSE LET r == updateJobStatus(jobs, calls[c].jobId, JobStatus.PROCESSING, NoData, now)
            IN /\ jobs' = r.jobs
               /\ calls' = [calls EXCEPT ![c] =
                    IF r.ok THEN [@ EXCEPT !.pc = "getFile", !.advanced = TRUE,
                                           !.log = Append(@, "getFile")]
                    ELSE [@ EXCEPT !.pc = "done", !.job = NoJob,
                                   !.response = ErrorResponse(PlainError, "")]]
    /\ UNCHANGED <<heap, nextId, now, clientVars, files, sweep, byId, devFallback, serviceVars>>

\* getFile returned the file: stage 2, textractService.analyzeDocument(job.s3Key)
\* is called.
ProcessGetFileOk(c) ==
    /\ calls[c].pc = "getFile"
    /\ calls[c].job.s3Key \in files
    /\ calls' = [calls EXCEPT ![c].pc = "analyze", ![c].log = Append(@, "analyzeDocument")]
    /\ UNCHANGED <<storeVars, clientVars, files, sweep, byId, devFallback, serviceVars>>

\* getFile threw.
ProcessGetFileFail(c) ==
    /\ calls[c].pc = "getFile"
    /\ FailStage(c, "S3_RETRIEVAL_FAILED", <<"storage error">>)
    /\ UNCHANGED <<heap, nextId, now, clientVars, files, sweep, byId, devFallback, serviceVars>>

\* analyzeDocument returned: stage 3, geminiService.normalizeTextractData is called.
ProcessAnalyzeOk(c) ==
    /\ calls[c].pc = "analyze"
    /\ calls' = [calls EXCEPT ![c].pc = "normalize",
                              ![c].log = Append(@, "normalizeTextractData")]
    /\ UNCHANGED <<storeVars, clientVars, files, sweep, byId, devFallback, serviceVars>>

\* analyzeDocument threw: with the development fallback
\* _createMockTextractResponse is called and its response goes on to stage 3,
\* else the request ends with the failure.
ProcessAnalyzeFail(c) ==
    /\ calls[c].pc = "analyze"
    /\ IF devFallback
       THEN /\ calls' = [calls EXCEPT ![c].pc = "normalize",
                                      ![c].log = Append(Append(@, "createMockTextractResponse"),
                                                        "normalizeTextractData")]
            /\ UNCHANGED jobs
       ELSE FailStage(c, "TEXTRACT_ANALYSIS_FAILED", <<"textract error">>)
    /\ UNCHANGED <<heap, nextId, now, clientVars, files, sweep, byId, devFallback, serviceVars>>

\* normalizeTextractData threw.
ProcessNormalizeFail(c) ==
    /\ calls[c].pc = "normalize"
    /\ FailStage(c, "GEMINI_NORMALIZATION_FAILED", <<"Failed to normalize Textract data">>)
    /\ UNCHANGED <<heap, nextId, now, clientVars, files, sweep, byId, devFallback, serviceVars>>

\* The statement data the normalization collaborator may return.
NoFields ==
    [bankName |-> Null, accountHolderName |-> Null, accountNumber |-> Null,
     accountType |-> Null, currency |-> Null, statementStartDate |-> Null,
     statementEndDate |-> Null, openingBalance |-> Null, closingBalance |-> Null,
     transactions |-> Arr(<<>>)]

CreditTx ==
    Transaction(Str(<<"1", "5", "/", "0", "1", "/", "2", "0", "2", "4">>),
                Str(<<"Deposit">>), Null, Str(<<"$", "1", ",", "2", "0", "0", ".", "5">>),
                Num(120050))
DebitTx ==
    Transaction(Str(<<"2", "0", "2", "4", "-", "0", "1", "-", "1", "6">>),
                Str(<<"ATM Withdrawal">>), Num(5000), Null, Num(115050))
BothTx ==
    Transaction(Str(<<"2", "0", "2", "4", "-", "0", "1", "-", "1", "7">>),
                Str(<<"Transfer">>), Num(10000), Num(5000), Null)

SavingsAccount ==
    BankAccount([NoFields EXCEPT !.accountType = Str(<<"Savings">>),
                                 !.openingBalance = Num(100000),
                                 !.transactions = Arr(<<CreditTx, DebitTx>>)])
CurrentAccount ==
    BankAccount([NoFields EXCEPT !.accountType = Str(<<"Current">>),
                                 !.statementStartDate = Str(<<"1", ".", "2", ".", "2", "0", "2", "4">>)])
ConflictAccount ==
    BankAccount([NoFields EXCEPT !.transactions = Arr(<<DebitTx, BothTx>>)])

\* A debit that is only a currency sign (it normalizes to null) beside a credit.
BlankDebitTx ==
    Transaction(Str(<<"2", "0", "2", "4", "-", "0", "1", "-", "1", "8">>),
                Str(<<"Interest">>), Str(<<"$">>), Num(250), Null)
BlankDebitAccount ==
    BankAccount([NoFields EXCEPT !.transactions = Arr(<<BlankDebitTx>>)])
\* An account whose opening balance is no amount.
BadBalanceAccount ==
    BankAccount([NoFields EXCEPT !.openingBalance = Str(<<"n", "/", "a">>)])

SampleStatement == BankStatementData(Str(<<"statement.pdf">>), Arr(<<SavingsAccount>>))

SampleData ==
    {BankStatementData(Str(<<"statement.pdf">>), Arr(<<SavingsAccount>>)),
     BankStatementData(Str(<<"statement.pdf">>), Arr(<<SavingsAccount, CurrentAccount>>)),
     BankStatementData(Str(<<"statement.pdf">>), Arr(<<SavingsAccount, ConflictAccount>>)),
     BankStatementData(Str(<<"statement.pdf">>), Arr(<<BlankDebitAccount>>)),
     BankStatementData(Str(<<"statement.pdf">>), Arr(<<BadBalanceAccount, ConflictAccount>>))}

\* A faulty count: only the accounts that have transactions are counted.
CountAccountsWithTransactions(normalizedData) ==
    IF normalizedData.accounts.isArray
    THEN Cardinality({i \in DOMAIN normalizedData.accounts.items :
                        normalizedData.accounts.items[i].transactions.items # <<>>})
    ELSE 0

\* normalizedData.accounts?.length || 0
CountAccounts(normalizedData) ==
    IF normalizedData.accounts.isArray THEN Len(normalizedData.accounts.items) ELSE 0

\* Stage 4 after updateJobStatus(jobId, PROCESSED, {...}) ended with r, to the
\* await on it: its throw is caught by the stage's catch.
ProcessUpdated(c, normalizedData, r) ==
    IF ~r.ok
    THEN FailStage(c, "DATA_VALIDATION_FAILED", <<"Failed to update job status">>)
         /\ UNCHANGED heap
    ELSE /\ jobs' = r.jobs
         /\ heap' = (calls[c].jobId :> normalizedData) @@ heap
         /\ calls' = [calls EXCEPT ![c].pc = "respond",
                                   ![c].accountsDetected = Num(CountAccounts(normalizedData))]

\* Stage 4 after _validateNormalizedData returned (v.ok) or threw: the accounts
\* are counted and updateJobStatus(jobId, PROCESSED, {...}) is called.
ProcessValidated(c, v) ==
    IF ~v.ok
    THEN FailStage(c, "DATA_VALIDATION_FAILED", v.error) /\ UNCHANGED heap
    ELSE ProcessUpdated(
            c, v.after,
            updateJobStatus(jobs, calls[c].jobId, JobStatus.PROCESSED,
                            [NoData EXCEPT !.accountsDetected = Num(CountAccounts(v.after)),
                                           !.processedData = Obj(calls[c].jobId)],
                            now))

\* normalizeTextractData returned `data`: stage 4 validates it.
ProcessNormalizeOk(c, data) ==
    /\ calls[c].pc = "normalize"
    /\ ProcessValidated(c, validateNormalizedData(data))
    /\ UNCHANGED <<nextId, now, clientVars, files, sweep, byId, devFallback, serviceVars>>

\* After updateJobStatus(PROCESSED): res.status(200).json(new ProcessResponse(...)).
ProcessRespond(c) ==
    /\ calls[c].pc = "respond"
    /\ calls' = [calls EXCEPT ![c].pc = "done", ![c].job = NoJob,
                   ![c].response = ProcessResponse(calls[c].jobId, JobStatus.PROCESSED,
                                                   calls[c].accountsDetected)]
    /\ UNCHANGED <<storeVars, clientVars, files, sweep, byId, devFallback, serviceVars>>

\* res.status(200).json(...) threw: it is inside the stage 4 try, so the
\* catch handles it as a validation failure.
ProcessRespondFail(c) ==
    /\ calls[c].pc = "respond"
    /\ FailStage(c, "DATA_VALIDATION_FAILED", <<"response error">>)
    /\ UNCHANGED <<heap, nextId, now, clientVars, files, sweep, byId, devFallback, serviceVars>>

\* ------------------------------------------------------ UploadController
\* The key uploadFile stored the file of the id-th upload under.
S3Key(id) == Str(<<"uploads/">> \o IntToChars(id))

\* uploadPDF: storageService.uploadFile, then jobManager.createJob(name, s3Key).
Upload ==
    /\ nextId <= MaxJobs
    /\ LET r == createJob(jobs, nextId, Str(<<"statement.pdf">>), S3Key(nextId), now)
       IN /\ jobs' = r.jobs
    /\ nextId' = nextId + 1
    /\ files' = files \cup {S3Key(nextId)}
    /\ UNCHANGED <<heap, now, clientVars, calls, sweep, byId, devFallback, serviceVars>>

\* Time passes.
Tick ==
    /\ now < MaxTime
    /\ now' = now + 1
    /\ UNCHANGED <<jobs, heap, nextId, clientVars, appVars>>

\* --------------------------------------------------------- CleanupService
\* this.config, in units of the clock.
completedJobRetentionMs == 1
failedJobRetentionMs == 2
maxJobsPerCleanup == 1

\* A faulty _shouldCleanupJob: a job still processing is cleaned up by age.
shouldCleanupJobByAge(job, t) ==
    CASE job.status = JobStatus.PROCESSED -> t - job.updatedAt > completedJobRetentionMs
      [] job.status = JobStatus.FAILED -> t - job.updatedAt > failedJobRetentionMs
      [] job.status = JobStatus.UPLOADED -> FALSE
      [] job.status = JobStatus.PROCESSING -> t - job.updatedAt > completedJobRetentionMs
      [] OTHER -> FALSE

\* A faulty _shouldCleanupJob: a job is cleaned up once its age reaches the
\* retention period.
shouldCleanupJobAtRetention(job, t) ==
    CASE job.status = JobStatus.PROCESSED -> t - job.updatedAt >= completedJobRetentionMs
      [] job.status = JobStatus.FAILED -> t - job.updatedAt >= failedJobRetentionMs
      [] OTHER -> FALSE

\* _shouldCleanupJob(job, now)
shouldCleanupJob(job, t) ==
    LET jobAge == t - job.updatedAt
    IN CASE job.status = JobStatus.PROCESSED -> jobAge > completedJobRetentionMs
         [] job.status = JobStatus.FAILED -> jobAge > failedJobRetentionMs
         [] job.status = JobStatus.UPLOADED -> FALSE
         [] job.status = JobStatus.PROCESSING -> FALSE
         [] OTHER -> FALSE

NoStats == [jobsProcessed |-> 0, jobsDeleted |-> 0, filesDeleted |-> 0, errors |-> <<>>]

IdleSweep ==
    [pc |-> "idle", allJobs |-> <<>>, i |-> 0, now |-> 0, processedCount |-> 0,
     stats |-> NoStats]

\* The for loop of performCleanup from the i-th listed job, up to its next
\* await (the deleteFile of _cleanupJob) or its end.
RECURSIVE SweepLoop(_)
SweepLoop(sw) ==
    IF sw.i > Len(sw.allJobs) \/ sw.processedCount >= maxJobsPerCleanup
    THEN [sw EXCEPT !.pc = "idle"]
    ELSE IF shouldCleanupJob(sw.allJobs[sw.i], sw.now)
    THEN [sw EXCEPT !.pc = "deleteFile"]
    ELSE SweepLoop([sw EXCEPT !.i = @ + 1, !.processedCount = @ + 1,
                              !.stats.jobsProcessed = @ + 1])

\* performCleanup, to its first await: getAllJobs().
SweepStart ==
    /\ sweep.pc = "idle"
    /\ sweep' = [IdleSweep EXCEPT !.pc = "list", !.allJobs = getAllJobs(jobs)]
    /\ UNCHANGED <<storeVars, clientVars, files, calls, byId, devFallback, serviceVars>>

\* After getAllJobs: now = new Date(), then the loop.
SweepList ==
    /\ sweep.pc = "list"
    /\ sweep' = SweepLoop([sweep EXCEPT !.i = 1, !.now = now])
    /\ UNCHANGED <<storeVars, clientVars, files, calls, byId, devFallback, serviceVars>>

\* _cleanupJob(job): deleteFile(job.s3Key) returned, then deleteJob(job.jobId);
\* the loop counts the job and goes on.
SweepDeleted ==
    /\ sweep.pc = "deleteFile"
    /\ LET job == sweep.allJobs[sweep.i]
           r == deleteJob(jobs, job.jobId)
       IN /\ files' = files \ {job.s3Key}
          /\ jobs' = r.jobs
          /\ sweep' = SweepLoop([sweep EXCEPT !.i = @ + 1, !.processedCount = @ + 1,
                                              !.stats.jobsDeleted = @ + 1,
                                              !.stats.filesDeleted = @ + 1,
                                              !.stats.jobsProcessed = @ + 1])
    /\ UNCHANGED <<heap, nextId, now, clientVars, calls, byId, devFallback, serviceVars>>

\* A faulty catch: the failure is recorded and the sweep ends there.
SweepDeleteFailedAborts ==
    /\ sweep.pc = "deleteFile"
    /\ sweep' = [sweep EXCEPT !.pc = "idle",
                              !.stats.errors = Append(@, sweep.allJobs[sweep.i].jobId)]
    /\ UNCHANGED <<storeVars, clientVars, files, calls, byId, devFallback, serviceVars>>

\* A faulty _cleanupJob: the job record is deleted although deleteFile threw.
SweepDeleteFailedDropsRecord ==
    /\ sweep.pc = "deleteFile"
    /\ jobs' = deleteJob(jobs, sweep.allJobs[sweep.i].jobId).jobs
    /\ sweep' = SweepLoop([sweep EXCEPT !.i = @ + 1,
                                        !.stats.errors = Append(@, sweep.allJobs[sweep.i].jobId)])
    /\ UNCHANGED <<heap, nextId, now, clientVars, files, calls, byId, devFallback, serviceVars>>

\* deleteFile threw: _cleanupJob rethrows, the loop's catch records the job.
SweepDeleteFailed ==
    /\ sweep.pc = "deleteFile"
    /\ sweep' = SweepLoop([sweep EXCEPT !.i = @ + 1,
                                        !.stats.errors = Append(@, sweep.allJobs[sweep.i].jobId)])
    /\ UNCHANGED <<storeVars, clientVars, files, calls, byId, devFallback, serviceVars>>

IdleById == [pc |-> "idle", job |-> NoJob, result |-> "none"]

\* cleanupJobById(jobId): getJobResult(jobId), then _cleanupJob(job) to the
\* await on deleteFile. It returns false when the job is not found.
CleanupByIdStart(jobId) ==
    /\ byId.pc = "idle"
    /\ LET r == getJobResult(jobs, jobId)
       IN byId' = IF r.ok THEN [pc |-> "deleteFile", job |-> r.job, result |-> "none"]
                  ELSE [IdleById EXCEPT !.result = "false"]
    /\ UNCHANGED <<storeVars, clientVars, files, calls, sweep, devFallback, serviceVars>>

\* deleteFile returned: deleteJob(job.jobId), and cleanupJobById returns true.
CleanupByIdDeleted ==
    /\ byId.pc = "deleteFile"
    /\ LET r == deleteJob(jobs, byId.job.jobId)
       IN /\ files' = files \ {byId.job.s3Key}
          /\ jobs' = r.jobs
    /\ byId' = [IdleById EXCEPT !.result = "true"]
    /\ UNCHANGED <<heap, nextId, now, clientVars, calls, sweep, devFallback, serviceVars>>

\* deleteFile threw: cleanupJobById throws.
CleanupByIdFailed ==
    /\ byId.pc = "deleteFile"
    /\ byId' = [IdleById EXCEPT !.result = "error"]
    /\ UNCHANGED <<storeVars, clientVars, files, calls, sweep, devFallback, serviceVars>>

\* ------------------------------- CleanupService: the on-demand operations
\* A further on-demand call, made while cleanupJobById and the sweep may be
\* under way: cleanupJobById by another caller, cleanupFailedJobs or
\* cleanupCompletedJobs.
\*   op            the method called, "none" before any call
\*   pc            "idle", "list" (awaiting getAllJobs), "deleteFile" (awaiting
\*                 the deleteFile of _cleanupJob for list[i])
\*   list          the jobs to clean up: the one found, or the filtered listing
\*   cleanedCount  the count cleanupFailedJobs / cleanupCompletedJobs returns
\*   result        what cleanupJobById returned: "true", "false", "error"
IdleOnDemand ==
    [op |-> "none", pc |-> "idle", list |-> <<>>, i |-> 0, cleanedCount |-> 0,
     result |-> "none", jobId |-> 0]

\* cleanupJobById(jobId) by another caller, to the await on deleteFile.
OnDemandByIdStart(jobId) ==
    /\ ondemand.pc = "idle"
    /\ LET r == getJobResult(jobs, jobId)
       IN ondemand' =
            IF r.ok
            THEN [IdleOnDemand EXCEPT !.op = "cleanupJobById", !.pc = "deleteFile",
                                      !.list = <<r.job>>, !.i = 1, !.jobId = jobId]
            ELSE [IdleOnDemand EXCEPT !.op = "cleanupJobById", !.result = "false",
                                      !.jobId = jobId]
    /\ UNCHANGED <<storeVars, clientVars, files, calls, sweep, byId, devFallback, scheduler, result, probe, gemini>>

\* cleanupFailedJobs() or cleanupCompletedJobs(), to the await on getAllJobs().
OnDemandListStart(op) ==
    /\ ondemand.pc = "idle"
    /\ ondemand' = [IdleOnDemand EXCEPT !.op = op, !.pc = "list", !.list = getAllJobs(jobs)]
    /\ UNCHANGED <<storeVars, clientVars, files, calls, sweep, byId, devFallback, scheduler, result, probe, gemini>>

\* The filter of cleanupFailedJobs, and that of cleanupCompletedJobs at time t.
OnDemandFilter(op, job, t) ==
    IF op = "cleanupFailedJobs" THEN job.status = JobStatus.FAILED
    ELSE job.status = JobStatus.PROCESSED /\ t - job.updatedAt > completedJobRetentionMs

\* The for loop of the listing operations at list[i]: the next _cleanupJob to
\* its await on deleteFile, or the return of cleanedCount.
OnDemandLoop(o) ==
    IF o.i > Len(o.list) THEN [o EXCEPT !.pc = "idle", !.list = <<>>, !.i = 0]
    ELSE [o EXCEPT !.pc = "deleteFile"]

\* After getAllJobs: the filter, then the loop.
OnDemandList ==
    /\ ondemand.pc = "list"
    /\ ondemand' = OnDemandLoop([ondemand EXCEPT
            !.list = SelectSeq(@, LAMBDA job : OnDemandFilter(ondemand.op, job, now)),
            !.i = 1])
    /\ UNCHANGED <<storeVars, clientVars, files, calls, sweep, byId, devFallback, scheduler, result, probe, gemini>>

\* deleteFile returned: deleteJob(job.jobId); cleanupJobById returns true, a
\* listing operation counts the job and goes on.
OnDemandDeleted ==
    /\ ondemand.pc = "deleteFile"
    /\ LET job == ondemand.list[ondemand.i]
           r == deleteJob(jobs, job.jobId)
       IN /\ files' = files \ {job.s3Key}
          /\ jobs' = r.jobs
    /\ ondemand' = IF ondemand.op = "cleanupJobById"
                   THEN [ondemand EXCEPT !.pc = "idle", !.list = <<>>, !.i = 0, !.result = "true"]
                   ELSE OnDemandLoop([ondemand EXCEPT !.i = @ + 1, !.cleanedCount = @ + 1])
    /\ UNCHANGED <<heap, nextId, now, clientVars, calls, sweep, byId, devFallback, scheduler, result, probe, gemini>>

\* deleteFile threw: cleanupJobById throws, a listing operation logs the
\* failure and goes on.
OnDemandDeleteFailed ==
    /\ ondemand.pc = "deleteFile"
    /\ ondemand' = IF ondemand.op = "cleanupJobById"
                   THEN [ondemand EXCEPT !.pc = "idle", !.list = <<>>, !.i = 0, !.result = "error"]
                   ELSE OnDemandLoop([ondemand EXCEPT !.i = @ + 1])
    /\ UNCHANGED <<storeVars, clientVars, files, calls, sweep, byId, devFallback, scheduler, result, probe, gemini>>

\* ----------------------------------------- CleanupService: the scheduler
\* The calls of startScheduledCleanup, in the order they are made. The timer a
\* call sets with setInterval is named by the call.
Starters == 1..MaxStarts

\* The scheduler of a CleanupService after construction.
\*   cleanupIntervals  the Map: empty, or 'main' -> the interval id kept
\*   isShuttingDown    the flag
\*   timers            the setInterval timers that no clearInterval has cleared
\*   starts            each call of startScheduledCleanup: not made ("idle"),
\*                     awaiting its initial performCleanup ("sweep"), returned
\*                     having set its timer ("started"), returned at the
\*                     has('main') check ("noop"), or thrown ("failed")
\*   timerSweeps       the performCleanup calls the timer callbacks made
\*   ticksSkipped      the timer callbacks that found isShuttingDown set
\*   finalSweeps       the performCleanup calls shutdown made
\*   stopped           stopScheduledCleanup has returned and no call of
\*                     startScheduledCleanup was made since
IdleScheduler ==
    [cleanupIntervals |-> <<>>, isShuttingDown |-> FALSE, timers |-> {},
     starts |-> [k \in Starters |-> "idle"],
     timerSweeps |-> 0, ticksSkipped |-> 0, finalSweeps |-> 0, stopped |-> FALSE]

\* startScheduledCleanup to its await: the has('main') check, then the initial
\* performCleanup is called.
StartBegin(k) ==
    /\ scheduler.starts[k] = "idle"
    /\ \A d \in 1..(k - 1) : scheduler.starts[d] # "idle"
    /\ scheduler' = [scheduler EXCEPT
                       !.starts[k] = IF scheduler.cleanupIntervals # <<>> THEN "noop"
                                     ELSE "sweep",
                       !.stopped = FALSE]
    /\ UNCHANGED <<storeVars, clientVars, files, calls, sweep, byId, devFallback, result, probe, gemini, ondemand>>

\* The initial performCleanup returned: setInterval, then
\* cleanupIntervals.set('main', intervalId).
StartRegister(k) ==
    /\ scheduler.starts[k] = "sweep"
    /\ scheduler' = [scheduler EXCEPT !.starts[k] = "started",
                                      !.timers = @ \cup {k},
                                      !.cleanupIntervals = <<k>>]
    /\ UNCHANGED <<storeVars, clientVars, files, calls, sweep, byId, devFallback, result, probe, gemini, ondemand>>

\* The initial performCleanup threw: startScheduledCleanup throws.
StartFailed(k) ==
    /\ scheduler.starts[k] = "sweep"
    /\ scheduler' = [scheduler EXCEPT !.starts[k] = "failed"]
    /\ UNCHANGED <<storeVars, clientVars, files, calls, sweep, byId, devFallback, result, probe, gemini, ondemand>>

\* The scheduler after the body of stopScheduledCleanup, which has no await.
Stopped(sch) ==
    [sch EXCEPT !.isShuttingDown = TRUE,
                !.timers = @ \ {sch.cleanupIntervals[i] : i \in DOMAIN sch.cleanupIntervals},
                !.cleanupIntervals = <<>>,
                !.stopped = TRUE]

\* stopScheduledCleanup()
StopScheduledCleanup ==
    /\ scheduler' = Stopped(scheduler)
    /\ UNCHANGED <<storeVars, clientVars, files, calls, sweep, byId, devFallback, result, probe, gemini, ondemand>>

\* shutdown(): stopScheduledCleanup, then performCleanup when
\* CLEANUP_ON_SHUTDOWN is 'true' (cleanupOnShutdown).
Shutdown(cleanupOnShutdown) ==
    /\ cleanupOnShutdown => scheduler.finalSweeps < MaxSweeps
    /\ scheduler' = [Stopped(scheduler) EXCEPT
                       !.finalSweeps = IF cleanupOnShutdown THEN @ + 1 ELSE @]
    /\ UNCHANGED <<storeVars, clientVars, files, calls, sweep, byId, devFallback, result, probe, gemini, ondemand>>

\* A faulty timer callback: performCleanup runs whatever isShuttingDown says.
TimerFireAlways(id) ==
    /\ id \in scheduler.timers
    /\ scheduler.timerSweeps < MaxSweeps
    /\ scheduler' = [scheduler EXCEPT !.timerSweeps = @ + 1]
    /\ UNCHANGED <<storeVars, clientVars, files, calls, sweep, byId, devFallback, result, probe, gemini, ondemand>>

\* The callback of timer `id` runs: performCleanup unless isShuttingDown.
TimerFire(id) ==
    /\ id \in scheduler.timers
    /\ IF scheduler.isShuttingDown
       THEN /\ scheduler.ticksSkipped < MaxSweeps
            /\ scheduler' = [scheduler EXCEPT !.ticksSkipped = @ + 1]
       ELSE /\ scheduler.timerSweeps < MaxSweeps
            /\ scheduler' = [scheduler EXCEPT !.timerSweeps = @ + 1]
    /\ UNCHANGED <<storeVars, clientVars, files, calls, sweep, byId, devFallback, result, probe, gemini, ondemand>>

\* ------------------------------------------------------ ResultsController
\* o.f for a property the object may not have: undefined when it is absent.
Field(o, f) == IF f \in DOMAIN o THEN o[f] ELSE Undef

\* x || null
OrNull(v) == IF Falsy(v) THEN Null ELSE v

\* A faulty _sanitizeTransactions: the transaction is copied whole.
sanitizeTransactionsSpread(transactions) ==
    IF ~transactions.isArray THEN <<>>
    ELSE [i \in DOMAIN transactions.items |->
            [f \in DOMAIN transactions.items[i] \ {"isObject"} |->
                OrNull(transactions.items[i][f])]]

\* _sanitizeTransactions(transactions)
sanitizeTransactions(transactions) ==
    IF ~transactions.isArray THEN <<>>
    ELSE [i \in DOMAIN transactions.items |->
            [date |-> OrNull(Field(transactions.items[i], "date")),
             description |-> OrNull(Field(transactions.items[i], "description")),
             debit |-> OrNull(Field(transactions.items[i], "debit")),
             credit |-> OrNull(Field(transactions.items[i], "credit")),
             balance |-> OrNull(Field(transactions.items[i], "balance"))]]

\* One element of the accounts.map of _sanitizeProcessedData; an absent
\* transactions property is read as [].
SanitizedAccount(account) ==
    [bankName |-> OrNull(Field(account, "bankName")),
     accountHolderName |-> OrNull(Field(account, "accountHolderName")),
     accountNumber |-> OrNull(Field(account, "accountNumber")),
     accountType |-> OrNull(Field(account, "accountType")),
     currency |-> OrNull(Field(account, "currency")),
     statementStartDate |-> OrNull(Field(account, "statementStartDate")),
     statementEndDate |-> OrNull(Field(account, "statementEndDate")),
     openingBalance |-> OrNull(Field(account, "openingBalance")),
     closingBalance |-> OrNull(Field(account, "closingBalance")),
     transactions |-> sanitizeTransactions(IF "transactions" \in DOMAIN account
                                           THEN account.transactions ELSE Arr(<<>>))]

\* _sanitizeProcessedData(processedData)
sanitizeProcessedData(processedData) ==
    [fileName |-> OrNull(Field(processedData, "fileName")),
     accounts |-> IF "accounts" \in DOMAIN processedData /\ processedData.accounts.isArray
                  THEN [a \in DOMAIN processedData.accounts.items |->
                          SanitizedAccount(processedData.accounts.items[a])]
                  ELSE <<>>]

\* What getResult answered: nothing yet, the AppError it threw (code, and the
\* currentStatus and errorMessage of its details), or the ResultResponse sent
\* with 200 (data: { fileName, accounts }).
NoResult ==
    [kind |-> "none", jobId |-> 0, code |-> "", currentStatus |-> "",
     errorMessage |-> Null, data |-> <<>>]
ResultError(jobId, code, currentStatus, errorMessage) ==
    [kind |-> "error", jobId |-> jobId, code |-> code, currentStatus |-> currentStatus,
     errorMessage |-> errorMessage, data |-> <<>>]
ResultResponse(jobId, sanitizedData) ==
    [kind |-> "ok", jobId |-> jobId, code |-> "", currentStatus |-> "",
     errorMessage |-> Null,
     data |-> [fileName |-> sanitizedData.fileName, accounts |-> sanitizedData.accounts]]

\* A faulty getResult: JOB_NOT_PROCESSED carries no error message.
getResultNoMessage(map, hp, jobId) ==
    IF jobId \notin DOMAIN map THEN ResultError(jobId, "JOB_NOT_FOUND", "", Null)
    ELSE IF map[jobId].status # JobStatus.PROCESSED
    THEN ResultError(jobId, "JOB_NOT_PROCESSED", map[jobId].status, Null)
    ELSE IF Falsy(map[jobId].processedData)
    THEN ResultError(jobId, "MISSING_PROCESSED_DATA", "", Null)
    ELSE ResultResponse(jobId, sanitizeProcessedData(hp[map[jobId].processedData.n]))

\* getResult(req, res) for the :jobId of the route (a non-empty string): what
\* it answers when the store is `map` and the data objects are `hp`. It works
\* on the copy getJobResult(jobId) returns.
getResult(map, hp, jobId) ==
    IF ~getJobResult(map, jobId).ok THEN ResultError(jobId, "JOB_NOT_FOUND", "", Null)
    ELSE IF getJobResult(map, jobId).job.status # JobStatus.PROCESSED
    THEN ResultError(jobId, "JOB_NOT_PROCESSED", getJobResult(map, jobId).job.status,
                     OrNull(getJobResult(map, jobId).job.errorMessage))
    ELSE IF Falsy(getJobResult(map, jobId).job.processedData)
    THEN ResultError(jobId, "MISSING_PROCESSED_DATA", "", Null)
    ELSE ResultResponse(
            jobId, sanitizeProcessedData(hp[getJobResult(map, jobId).job.processedData.n]))

\* GET /api/statements/result/:jobId
GetResult(jobId) ==
    /\ result' = getResult(jobs, heap, jobId)
    /\ UNCHANGED <<storeVars, clientVars, files, calls, sweep, byId, devFallback, scheduler, probe, gemini, ondemand>>

\* Statement data with a transaction and balances of zero and an empty bank
\* name.
ZeroTx ==
    Transaction(Str(<<"2", "0", "2", "4", "-", "0", "1", "-", "1", "9">>),
                Str(<<"Fee waived">>), Num(0), Null, Num(0))
ZeroStatement ==
    BankStatementData(
        Str(<<"statement.pdf">>),
        Arr(<<BankAccount([NoFields EXCEPT !.bankName = Str(<<>>),
                                           !.openingBalance = Num(0),
                                           !.transactions = Arr(<<ZeroTx, CreditTx>>)])>>))

\* `o` with the properties `extra` added to it.
WithFields(o, extra) == extra @@ o
\* `o` without its property f.
WithoutField(o, f) == [g \in DOMAIN o \ {f} |-> o[g]]

\* Statement data with properties of its own at the three levels (Textract
\* blocks, a confidence, a source block id) and an account with no currency.
TaggedStatement ==
    WithFields(
        BankStatementData(
            Str(<<"statement.pdf">>),
            Arr(<<WithoutField(
                    WithFields([SavingsAccount EXCEPT !.transactions =
                                  Arr(<<WithFields(CreditTx, [sourceBlockId |-> Str(<<"b-17">>)]),
                                        DebitTx>>)],
                               [confidence |-> Num(9950)]),
                    "currency")>>)),
        [rawTextractBlocks |-> Arr(<<Str(<<"BLOCK">>)>>)])

ResultSamples == {SampleStatement, ZeroStatement, TaggedStatement}

\* ---------------------------------------------------------- GeminiService
\* What one call of chat.sendMessage comes to: a response that passes the
\* schema, one that fails it and _fixSchemaIssues cannot repair, one that fails
\* it and _fixSchemaIssues repairs, a text that is no JSON, the timeout, an API
\* key error, and an error none of the lists of _shouldRetryError names.
GeminiOutcomes ==
    {"valid", "invalid", "fixable", "invalid json", "timeout", "api key", "unknown"}

\* The message of the Error an attempt throws.
AttemptError(outcome) ==
    CASE outcome \in {"invalid", "fixable"} -> "Schema validation failed: "
      [] outcome = "invalid json" -> "Invalid JSON response from Gemini: "
      [] outcome = "timeout" -> "Gemini API timeout after "
      [] outcome = "api key" -> "API key not valid"
      [] OTHER -> "internal error"

\* _shouldRetryError(error, attempt)
shouldRetryError(message, attempt) ==
    IF message = "API key not valid" THEN FALSE
    ELSE IF message \in {"Schema validation failed: ", "Invalid JSON response from Gemini: ",
                         "Gemini API timeout after "}
    THEN TRUE
    ELSE attempt = 1

\* normalizeTextractData after construction: not called.
\*   pc         "idle", "call" (awaiting sendMessage), "backoff" (awaiting the
\*              timer before the next attempt), "done"
\*   attempt    the attempt of _callGeminiWithRetry
\*   responses  what the calls of sendMessage so far came to, in order
\*   error      the message of the Error normalizeTextractData threw, or ""
IdleGemini ==
    [pc |-> "idle", maxRetries |-> 0, attempt |-> 0, responses |-> <<>>,
     ok |-> FALSE, error |-> ""]

\* The maxRetries normalizeTextractData passes to _callGeminiWithRetry.
NormalizeRetries == 2

\* normalizeTextractData(textractData, fileName): _callGeminiWithRetry(userPrompt, 2)
\* to the await on the first sendMessage.
NormalizeStart ==
    /\ gemini.pc = "idle"
    /\ gemini' = [IdleGemini EXCEPT !.pc = "call", !.attempt = 1,
                                    !.maxRetries = NormalizeRetries]
    /\ UNCHANGED <<storeVars, clientVars, files, calls, sweep, byId, devFallback, scheduler, result, probe, ondemand>>

\* The body of the attempt after sendMessage, and the catch: the result is
\* returned, or the attempt's error ends the loop or is followed by the backoff.
AfterAttempt(g, outcome) ==
    IF outcome = "valid" \/ (outcome = "fixable" /\ g.attempt = g.maxRetries + 1)
    THEN [g EXCEPT !.pc = "done", !.ok = TRUE]
    ELSE IF g.attempt = g.maxRetries + 1 \/ ~shouldRetryError(AttemptError(outcome), g.attempt)
    THEN [g EXCEPT !.pc = "done", !.ok = FALSE,
                   !.error = "Failed to normalize Textract data: "]
    ELSE [g EXCEPT !.pc = "backoff"]

\* The await on sendMessage (raced with the timeout) is over.
GeminiResponds(outcome) ==
    /\ gemini.pc = "call"
    /\ gemini' = AfterAttempt([gemini EXCEPT !.responses = Append(@, outcome)], outcome)
    /\ UNCHANGED <<storeVars, clientVars, files, calls, sweep, byId, devFallback, scheduler, result, probe, ondemand>>

\* The backoff timer fired: the next attempt calls sendMessage.
GeminiRetries ==
    /\ gemini.pc = "backoff"
    /\ gemini' = [gemini EXCEPT !.pc = "call", !.attempt = @ + 1]
    /\ UNCHANGED <<storeVars, clientVars, files, calls, sweep, byId, devFallback, scheduler, result, probe, ondemand>>

\* ------------------------------------------------- a validator on its own
\* No validator has been applied and none is about to be.
NoProbe ==
    [fn |-> "none", input |-> Undef, output |-> Undef,
     written |-> [year |-> 0, month |-> 0, day |-> 0]]

\* The text of the day, month and year in each accepted form, padded to two
\* digits or not.
TwoDigits(n, padded) == IF padded THEN PadStart2(n) ELSE IntToChars(n)

DateText(form, year, month, day, padded) ==
    CASE form = "YYYY-MM-DD" ->
            IntToChars(year) \o <<"-">> \o PadStart2(month) \o <<"-">> \o PadStart2(day)
      [] form = "DD/MM/YYYY" ->
            TwoDigits(day, padded) \o <<"/">> \o TwoDigits(month, padded) \o <<"/">>
                \o IntToChars(year)
      [] form = "DD-MM-YYYY" ->
            TwoDigits(day, padded) \o <<"-">> \o TwoDigits(month, padded) \o <<"-">>
                \o IntToChars(year)
      [] form = "YYYY/MM/DD" ->
            IntToChars(year) \o <<"/">> \o TwoDigits(month, padded) \o <<"/">>
                \o TwoDigits(day, padded)
      [] form = "DD.MM.YYYY" ->
            TwoDigits(day, padded) \o <<".">> \o TwoDigits(month, padded) \o <<".">>
                \o IntToChars(year)

\* The date strings validateAndFormatDate is given: each accepted form, with
\* days and months that exist and ones that do not.
DateForms == {"YYYY-MM-DD", "DD/MM/YYYY", "DD-MM-YYYY", "YYYY/MM/DD", "DD.MM.YYYY"}
DateYears == {2023, 2024}
DateMonths == {1, 2, 4, 12, 13}
DateDays == {1, 28, 29, 30, 31, 32}

DateProbes ==
    {[fn |-> "none", output |-> Undef,
      input |-> Str(DateText(form, y, m, d, padded)),
      written |-> [year |-> y, month |-> m, day |-> d]] :
        form \in DateForms, y \in DateYears, m \in DateMonths, d \in DateDays,
        padded \in BOOLEAN}

\* The transaction objects the validators are given: fields that are already
\* normalized, fields that normalize to another value, and fields that fail.
SampleTransactions ==
    {Transaction(date, description, debit, credit, balance) :
        date \in {Null, Str(<<"2", "0", "2", "4", "-", "0", "1", "-", "1", "6">>),
                  Str(<<"1", "5", "/", "0", "1", "/", "2", "0", "2", "4">>),
                  Str(<<"n", "/", "a">>)},
        description \in {Null, Str(<<"Deposit">>)},
        debit \in {Null, Num(5000), Str(<<"$", "5", "0">>), Bool(TRUE)},
        credit \in {Null, Num(120050), Str(<<"$">>)},
        balance \in {Null, Str(<<"1", ",", "0", "0", "0">>)}}

TransactionProbes ==
    {[NoProbe EXCEPT !.input = transaction] : transaction \in SampleTransactions}
        \cup {[NoProbe EXCEPT !.input = Arr(<<CreditTx, transaction>>)] :
                 transaction \in SampleTransactions}

\* validateTransaction(transaction) is called on the object: the probe keeps
\* what it returned and the object as the call left it.
ApplyValidateTransaction ==
    /\ probe.fn = "none" /\ "isObject" \in DOMAIN probe.input
    /\ probe' = [probe EXCEPT !.fn = "validateTransaction",
                              !.output = validateTransaction(probe.input)]
    /\ UNCHANGED <<storeVars, clientVars, files, calls, sweep, byId, devFallback, scheduler, result, gemini, ondemand>>

\* validateAccountTransactions(transactions) is called on the array.
ApplyValidateAccountTransactions ==
    /\ probe.fn = "none" /\ "isArray" \in DOMAIN probe.input
    /\ probe' = [probe EXCEPT !.fn = "validateAccountTransactions",
                              !.output = validateAccountTransactions(probe.input)]
    /\ UNCHANGED <<storeVars, clientVars, files, calls, sweep, byId, devFallback, scheduler, result, gemini, ondemand>>

\* validateAndFormatDate(dateValue) is called on the string.
ApplyValidateAndFormatDate ==
    /\ probe.fn = "none" /\ probe.input # Undef
    /\ probe' = [probe EXCEPT !.fn = "validateAndFormatDate",
                              !.output = validateAndFormatDate(probe.input)]
    /\ UNCHANGED <<storeVars, clientVars, files, calls, sweep, byId, devFallback, scheduler, result, gemini, ondemand>>

\* ------------------------------------------------- clients of the store
\* What a caller of the JobManager holds after a call: nothing, the stored Job
\* object itself ("stored", of job `id`), or a Job object of its own ("copy").
NoHandle == [kind |-> "none", from |-> "", id |-> 0, job |-> NoJob]
StoredHandle(from, id) == [kind |-> "stored", from |-> from, id |-> id, job |-> NoJob]
CopyHandle(from, job) == [kind |-> "copy", from |-> from, id |-> job.jobId, job |-> job]

\* The arguments callers pass: valid ones and ones the operations reject.
FileNameArgs == {Str(<<"test.pdf">>), Null}
S3KeyArgs == {Str(<<"test-key">>), Str(<<>>)}
StatusArgs == JobStatusValues \cup {"invalid-status"}

\* additionalData: each field absent or present; `ref` is the object passed as
\* processedData.
AdditionalDataArgs(ref) ==
    [accountsDetected : {Undef, Num(2)},
     processedData : {Undef, Obj(ref)},
     errorMessage : {Undef, Str(<<"Test error">>)}]

\* additionalData with the result of a processed statement.
ResultData(ref) == [NoData EXCEPT !.accountsDetected = Num(1), !.processedData = Obj(ref)]

\* additionalData as ProcessingController passes it: the result fields with
\* PROCESSED only, the error message with FAILED only.
Disciplined(status, additionalData) ==
    /\ additionalData.accountsDetected # Undef => status = JobStatus.PROCESSED
    /\ additionalData.processedData # Undef => status = JobStatus.PROCESSED
    /\ additionalData.errorMessage # Undef => status = JobStatus.FAILED

\* new Date() in a call of the store: time has passed since the call before.
Later == IF now < MaxTime THEN now + 1 ELSE now

\* The call a caller of the store made last: how it ended (error: the message
\* of the Error thrown) and whether its additionalData was disciplined.
Ran(op, ok, error, disciplined) ==
    [op |-> op, ok |-> ok, error |-> error, disciplined |-> disciplined]

\* await jobManager.createJob(fileName, s3Key); the caller keeps what it
\* returns, or not.
SCreateJob(fileName, s3Key, keep) ==
    /\ nextId <= MaxJobs
    /\ LET r == createJob(jobs, nextId, fileName, s3Key, Later)
       IN /\ jobs' = r.jobs
          /\ nextId' = IF r.ok THEN nextId + 1 ELSE nextId
          /\ held' = IF r.ok /\ keep THEN StoredHandle("createJob", nextId) ELSE held
          /\ lastOp' = Ran("createJob", r.ok, r.error, TRUE)
    /\ now' = Later
    /\ UNCHANGED <<heap, appVars>>

\* await jobManager.updateJobStatus(jobId, status, additionalData)
SUpdateJobStatus(jobId, status, additionalData) ==
    /\ LET r == updateJobStatus(jobs, jobId, status, additionalData, Later)
       IN /\ jobs' = r.jobs
          /\ heap' = IF r.ok /\ additionalData.processedData # Undef
                     THEN (jobId :> SampleStatement) @@ heap ELSE heap
          /\ lastOp' = Ran("updateJobStatus", r.ok, r.error,
                        Disciplined(status, additionalData))
    /\ now' = Later
    /\ UNCHANGED <<nextId, held, appVars>>

\* await jobManager.getJobResult(jobId); the caller keeps what it returns, or not.
SGetJobResult(jobId, keep) ==
    /\ LET r == getJobResult(jobs, jobId)
       IN /\ held' = IF r.ok /\ keep THEN CopyHandle("getJobResult", r.job) ELSE held
          /\ lastOp' = Ran("getJobResult", r.ok, r.error, TRUE)
    /\ UNCHANGED <<storeVars, appVars>>

\* await jobManager.getAllJobs(): the caller keeps the i-th job of the array
\* (none of them when i is 0).
SGetAllJobs(i) ==
    /\ LET all == getAllJobs(jobs)
       IN /\ i <= Len(all)
          /\ held' = IF i > 0 THEN CopyHandle("getAllJobs", all[i]) ELSE held
    /\ lastOp' = Ran("getAllJobs", TRUE, "", TRUE)
    /\ UNCHANGED <<storeVars, appVars>>

\* await jobManager.deleteJob(jobId)
SDeleteJob(jobId) ==
    /\ LET r == deleteJob(jobs, jobId)
       IN /\ jobs' = r.jobs
          /\ lastOp' = Ran("deleteJob", r.deleted, "", TRUE)
    /\ UNCHANGED <<heap, nextId, now, held, appVars>>

\* The caller assigns the status field of the Job object it holds, as in
\* retrievedJob.status = JobStatus.FAILED.
ClientAssign(status) ==
    /\ held.kind # "none"
    /\ IF held.kind = "stored"
       THEN /\ jobs' = IF held.id \in DOMAIN jobs
                       THEN [jobs EXCEPT ![held.id].status = status] ELSE jobs
            /\ UNCHANGED held
       ELSE /\ held' = [held EXCEPT !.job.status = status]
            /\ UNCHANGED jobs
    /\ lastOp' = Ran("assign", TRUE, "", TRUE)
    /\ UNCHANGED <<heap, nextId, now, appVars>>

\* The processedData the held Job object refers to.
HeldData ==
    IF held.kind = "stored"
    THEN (IF held.id \in DOMAIN jobs THEN jobs[held.id].processedData ELSE Null)
    ELSE held.job.processedData

\* The caller empties the accounts array of the held job's processedData, as in
\* job.processedData.accounts.length = 0.
ClientMutateData ==
    /\ held.kind # "none"
    /\ HeldData.t = "obj"
    /\ heap' = [heap EXCEPT ![HeldData.n].accounts = Arr(<<>>)]
    /\ lastOp' = Ran("mutateData", TRUE, "", TRUE)
    /\ UNCHANGED <<jobs, nextId, now, held, appVars>>

\* What getJobResult shows of the store: every stored job's fields, with the
\* statement data its processedData refers to.
StoreView ==
    [j \in DOMAIN jobs |->
        <<jobs[j], IF jobs[j].processedData.t = "obj"
                   THEN <<heap[jobs[j].processedData.n]>> ELSE <<>> >>]

\* ------------------------------------------------------------ the program
Constructed ==
    /\ jobs = <<>>
    /\ heap = <<>>
    /\ nextId = 1
    /\ now = 0
    /\ held = NoHandle
    /\ lastOp = Ran("none", TRUE, "", TRUE)
    /\ files = {}
    /\ calls = [c \in Calls |-> IdleCall]
    /\ sweep = IdleSweep
    /\ byId = IdleById
    /\ devFallback \in BOOLEAN
    /\ scheduler = IdleScheduler
    /\ result = NoResult
    /\ gemini = IdleGemini
    /\ ondemand = IdleOnDemand

Init == Constructed /\ probe = NoProbe

\* validateTransaction and validateAccountTransactions on their own, given a
\* transaction object or an array of them.
TransactionInit == Constructed /\ probe \in TransactionProbes

TransactionSpec ==
    TransactionInit
        /\ [][ApplyValidateTransaction \/ ApplyValidateAccountTransactions]_vars

\* validateAndFormatDate on its own, given one of the date strings.
DateInit == Constructed /\ probe \in DateProbes

DateSpec == DateInit /\ [][ApplyValidateAndFormatDate]_vars

\* The requests of the API: uploads, concurrent processStatement requests and
\* cleanupJobById, which may delete any job at any await of a request.
Next ==
    \/ Upload
    \/ \E c \in Calls, j \in JobIds : ProcessStart(c, j)
    \/ \E c \in Calls : ProcessCheck(c)
    \/ \E c \in Calls : ProcessGetFileOk(c)
    \/ \E c \in Calls : ProcessGetFileFail(c)
    \/ \E c \in Calls : ProcessAnalyzeOk(c)
    \/ \E c \in Calls : ProcessAnalyzeFail(c)
    \/ \E c \in Calls, data \in SampleData : ProcessNormalizeOk(c, data)
    \/ \E c \in Calls : ProcessNormalizeFail(c)
    \/ \E c \in Calls : ProcessRespond(c)
    \/ \E c \in Calls : ProcessRespondFail(c)
    \/ \E j \in JobIds : CleanupByIdStart(j)
    \/ CleanupByIdDeleted
    \/ CleanupByIdFailed

Spec == Init /\ [][Next]_vars

\* The cleanup service at work while time passes and one processStatement
\* request at a time runs.
CleanupNext ==
    \/ Upload
    \/ Tick
    \/ \E j \in JobIds : ProcessStart(1, j)
    \/ ProcessCheck(1)
    \/ ProcessGetFileOk(1)
    \/ ProcessGetFileFail(1)
    \/ ProcessAnalyzeOk(1)
    \/ ProcessAnalyzeFail(1)
    \/ \E data \in SampleData : ProcessNormalizeOk(1, data)
    \/ ProcessNormalizeFail(1)
    \/ ProcessRespond(1)
    \/ ProcessRespondFail(1)
    \/ SweepStart
    \/ SweepList
    \/ SweepDeleted
    \/ SweepDeleteFailed
    \/ \E j \in JobIds : CleanupByIdStart(j)
    \/ CleanupByIdDeleted
    \/ CleanupByIdFailed

CleanupSpec == Init /\ [][CleanupNext]_vars

\* The sweep over the jobs of several requests, which all get the same
\* statement data when their normalization succeeds.
SweepNext ==
    \/ Upload
    \/ Tick
    \/ \E c \in Calls, j \in JobIds : ProcessStart(c, j)
    \/ \E c \in Calls :
          \/ ProcessCheck(c)
          \/ ProcessGetFileOk(c)
          \/ ProcessGetFileFail(c)
          \/ ProcessAnalyzeOk(c)
          \/ ProcessAnalyzeFail(c)
          \/ ProcessNormalizeOk(c, SampleStatement)
          \/ ProcessNormalizeFail(c)
          \/ ProcessRespond(c)
          \/ ProcessRespondFail(c)
    \/ SweepStart
    \/ SweepList
    \/ SweepDeleted
    \/ SweepDeleteFailed

SweepSpec == Init /\ [][SweepNext]_vars

\* The scheduler of a CleanupService whose store holds no job: every
\* performCleanup it runs finds nothing to delete.
SchedulerNext ==
    \/ \E k \in Starters : StartBegin(k)
    \/ \E k \in Starters : StartRegister(k)
    \/ \E k \in Starters : StartFailed(k)
    \/ StopScheduledCleanup
    \/ \E cleanupOnShutdown \in BOOLEAN : Shutdown(cleanupOnShutdown)
    \/ \E id \in Starters : TimerFire(id)

SchedulerSpec == Init /\ [][SchedulerNext]_vars

\* One processStatement request and the get-result requests beside it.
ResultsNext ==
    \/ Upload
    \/ \E j \in JobIds : ProcessStart(1, j)
    \/ ProcessCheck(1)
    \/ ProcessGetFileOk(1)
    \/ ProcessGetFileFail(1)
    \/ ProcessAnalyzeOk(1)
    \/ ProcessAnalyzeFail(1)
    \/ \E data \in ResultSamples : ProcessNormalizeOk(1, data)
    \/ ProcessNormalizeFail(1)
    \/ ProcessRespond(1)
    \/ ProcessRespondFail(1)
    \/ \E j \in JobIds : GetResult(j)

ResultsSpec == Init /\ [][ResultsNext]_vars

\* One call of normalizeTextractData with the AI backend answering in any way.
GeminiNext ==
    \/ NormalizeStart
    \/ \E outcome \in GeminiOutcomes : GeminiResponds(outcome)
    \/ GeminiRetries

GeminiSpec == Init /\ [][GeminiNext]_vars

\* The scheduler running and file deletion succeeding: the timer starts a sweep
\* again and again and each sweep runs to its end, while one request is
\* processed and time passes.
TimerSweepNext ==
    \/ Upload
    \/ Tick
    \/ \E j \in JobIds : ProcessStart(1, j)
    \/ ProcessCheck(1)
    \/ ProcessGetFileOk(1)
    \/ ProcessGetFileFail(1)
    \/ ProcessAnalyzeOk(1)
    \/ ProcessNormalizeOk(1, SampleStatement)
    \/ ProcessRespond(1)
    \/ SweepStart
    \/ SweepList
    \/ SweepDeleted

\* setInterval calls performCleanup every cleanupIntervalMs, and the awaits of
\* a sweep return: a sweep that can start, list or delete does so.
TimerSweepSpec ==
    /\ Init
    /\ [][TimerSweepNext]_vars
    /\ WF_vars(Tick)
    /\ WF_vars(SweepStart)
    /\ WF_vars(SweepList)
    /\ WF_vars(SweepDeleted)

\* Every cleanup operation at work on one store: the sweep together with an
\* on-demand cleanupJobById, cleanupFailedJobs or cleanupCompletedJobs, while
\* one request is processed and time passes.
OnDemandNext ==
    \/ Upload
    \/ Tick
    \/ \E j \in JobIds : ProcessStart(1, j)
    \/ ProcessCheck(1)
    \/ ProcessGetFileOk(1)
    \/ ProcessGetFileFail(1)
    \/ ProcessAnalyzeOk(1)
    \/ ProcessNormalizeOk(1, SampleStatement)
    \/ ProcessRespond(1)
    \/ SweepStart
    \/ SweepList
    \/ SweepDeleted
    \/ SweepDeleteFailed
    \/ \E j \in JobIds : OnDemandByIdStart(j)
    \/ \E op \in {"cleanupFailedJobs", "cleanupCompletedJobs"} : OnDemandListStart(op)
    \/ OnDemandList
    \/ OnDemandDeleted
    \/ OnDemandDeleteFailed

OnDemandSpec == Init /\ [][OnDemandNext]_vars

\* The sweep and two callers of cleanupJobById at work on one store, while one
\* request fails and time passes.
RivalCleanupNext ==
    \/ Upload
    \/ Tick
    \/ \E j \in JobIds : ProcessStart(1, j)
    \/ ProcessCheck(1)
    \/ ProcessGetFileFail(1)
    \/ SweepStart
    \/ SweepList
    \/ SweepDeleted
    \/ SweepDeleteFailed
    \/ \E j \in JobIds : CleanupByIdStart(j)
    \/ CleanupByIdDeleted
    \/ CleanupByIdFailed
    \/ \E j \in JobIds : OnDemandByIdStart(j)
    \/ OnDemandDeleted
    \/ OnDemandDeleteFailed

RivalCleanupSpec == Init /\ [][RivalCleanupNext]_vars

\* The JobManager alone, called with any arguments in any order.
StoreNext ==
    \/ \E fileName \in FileNameArgs, s3Key \in S3KeyArgs : SCreateJob(fileName, s3Key, FALSE)
    \/ \E jobId \in JobIds, status \in StatusArgs :
          \E additionalData \in AdditionalDataArgs(jobId) :
             SUpdateJobStatus(jobId, status, additionalData)
    \/ \E jobId \in JobIds : SGetJobResult(jobId, FALSE)
    \/ SGetAllJobs(0)
    \/ \E jobId \in JobIds : SDeleteJob(jobId)

StoreSpec == Init /\ [][StoreNext]_vars

\* The JobManager and a caller that changes the objects it was given.
ClientNext ==
    \/ SCreateJob(Str(<<"test.pdf">>), Str(<<"test-key">>), TRUE)
    \/ \E jobId \in JobIds, status \in JobStatusValues :
          \E additionalData \in {NoData, ResultData(jobId)} :
             SUpdateJobStatus(jobId, status, additionalData)
    \/ \E jobId \in JobIds : SGetJobResult(jobId, TRUE)
    \/ \E i \in 1..MaxJobs : SGetAllJobs(i)
    \/ \E status \in JobStatusValues : ClientAssign(status)
    \/ ClientMutateData

ClientSpec == Init /\ [][ClientNext]_vars

\* ------------------------------------------------------------ properties
ActiveStatuses == {JobStatus.UPLOADED, JobStatus.PROCESSING}
TerminalStatuses == {JobStatus.PROCESSED, JobStatus.FAILED}

\* The status changes the lifecycle allows.
LifecycleEdges ==
    {<<JobStatus.UPLOADED, JobStatus.PROCESSING>>, <<JobStatus.UPLOADED, JobStatus.FAILED>>,
     <<JobStatus.PROCESSING, JobStatus.PROCESSED>>, <<JobStatus.PROCESSING, JobStatus.FAILED>>}

\* C1: whatever calls the job store receives, every change of a stored job's
\* status is UPLOADED -> PROCESSING, UPLOADED -> FAILED, PROCESSING -> PROCESSED
\* or PROCESSING -> FAILED; so a job in PROCESSED or FAILED keeps its status.
C1_StatusChangesFollowLifecycle ==
    [][\A j \in DOMAIN jobs \cap DOMAIN jobs' :
          jobs'[j].status # jobs[j].status
             => <<jobs[j].status, jobs'[j].status>> \in LifecycleEdges]_vars

\* A job has gone UPLOADED -> PROCESSING -> PROCESSED, another is FAILED, and
\* the last call was an update the transition check rejected.
C1_Witness ==
    /\ lastOp.op = "updateJobStatus" /\ lastOp.error = "Invalid status transition"
    /\ \E j \in DOMAIN jobs : jobs[j].status = JobStatus.PROCESSED
    /\ \E j \in DOMAIN jobs : jobs[j].status = JobStatus.FAILED

\* C2: of the processStatement requests for one job, whatever their
\* interleaving, at most one moves the job from UPLOADED to PROCESSING and runs
\* the stages; a request that did not has invoked no collaborator and, once
\* ended, has been rejected.
C2_AtMostOneRequestAdvances ==
    /\ \A c, d \in Calls :
          (c # d /\ calls[c].advanced /\ calls[d].advanced)
             => calls[c].jobId # calls[d].jobId
    /\ \A c \in Calls :
          ~calls[c].advanced
             => /\ calls[c].log = <<>>
                /\ calls[c].pc \in {"idle", "check", "done"}
                /\ calls[c].pc = "done" => calls[c].response.kind = "error"

\* Two requests for one job both read it as UPLOADED; one advanced it and runs
\* the stages, the other has ended rejected by the update.
C2_Witness ==
    \E c, d \in Calls :
       /\ c # d /\ calls[c].jobId = calls[d].jobId
       /\ calls[c].advanced /\ calls[c].log # <<>>
       /\ calls[d].pc = "done" /\ calls[d].response.code = PlainError

\* C3: when a request that started the pipeline has ended with a stage
\* failure, the job, if it is still stored, is FAILED with the error message
\* of that stage.
C3_StageFailureLeavesJobFailed ==
    \A c \in Calls :
       (/\ calls[c].pc = "done" /\ calls[c].advanced
        /\ calls[c].response.code \in StageFailureCodes
        /\ calls[c].jobId \in DOMAIN jobs)
          => /\ jobs[calls[c].jobId].status = JobStatus.FAILED
             /\ jobs[calls[c].jobId].errorMessage.t = "str"
             /\ jobs[calls[c].jobId].errorMessage.s[1] = StageMessage(calls[c].response.code)

\* C4: a step of the sweep that deletes the record or the file of a stored job
\* deletes those of a job whose stored status is PROCESSED or FAILED, whatever
\* the job's age and whatever ran since the sweep listed the jobs.
C4_SweepSparesActiveJobs ==
    [][\A j \in DOMAIN jobs :
          (/\ sweep.pc = "deleteFile" /\ sweep' # sweep
           /\ \/ j \notin DOMAIN jobs'
              \/ jobs[j].s3Key \in files /\ jobs[j].s3Key \notin files')
             => jobs[j].status \in TerminalStatuses]_vars

\* A sweep has examined a job that is UPLOADED or PROCESSING and older than
\* both retention periods, and has ended with the job and its file in place.
C4_Witness ==
    /\ sweep.pc = "idle" /\ sweep.i > 1
    /\ sweep.allJobs[1].status \in ActiveStatuses
    /\ sweep.now - sweep.allJobs[1].updatedAt > failedJobRetentionMs
    /\ sweep.now - sweep.allJobs[1].updatedAt > completedJobRetentionMs
    /\ sweep.allJobs[1].jobId \in DOMAIN jobs
    /\ jobs[sweep.allJobs[1].jobId].status \in ActiveStatuses
    /\ sweep.allJobs[1].s3Key \in files

\* C5: a caller that changes the Job object getJobResult gave it, or anything
\* that object refers to, changes nothing a later getJobResult shows.
C5_ReturnedCopyIsDetached ==
    [][(held.from = "getJobResult" /\ lastOp'.op \in {"assign", "mutateData"})
          => StoreView' = StoreView]_vars

\* C6: no operation of the job store returns the stored object: assigning a
\* field of a returned Job object leaves the stored jobs as they are.
C6_NoLiveReferenceReturned ==
    [][lastOp'.op = "assign" => jobs' = jobs]_vars

\* The result fields of a job agree with its status.
ResultFieldsMatchStatus(job) ==
    /\ job.accountsDetected # Null => job.status = JobStatus.PROCESSED
    /\ job.processedData # Null => job.status = JobStatus.PROCESSED
    /\ job.errorMessage # Null => job.status = JobStatus.FAILED

\* C7 as stated: after any createJob and updateJobStatus calls, with any
\* additionalData, every stored job has accountsDetected and processedData
\* non-null only in PROCESSED and errorMessage non-null only in FAILED.
C7_ResultFieldsMatchStatus ==
    \A j \in DOMAIN jobs : ResultFieldsMatchStatus(jobs[j])

\* C7 amended: a call of the store whose additionalData carries accountsDetected
\* or processedData only with PROCESSED and errorMessage only with FAILED keeps
\* the result fields of every stored job in agreement with its status.
C7_DisciplinedCallsKeepFieldsMatching ==
    [][(lastOp'.disciplined /\ \A j \in DOMAIN jobs : ResultFieldsMatchStatus(jobs[j]))
          => \A j \in DOMAIN jobs' : ResultFieldsMatchStatus(jobs'[j])]_vars

\* Disciplined updates with data have taken effect: a job is PROCESSED with its
\* result fields and another FAILED with its error message.
C7_Witness ==
    /\ lastOp.op = "updateJobStatus" /\ lastOp.ok /\ lastOp.disciplined
    /\ \A j \in DOMAIN jobs : ResultFieldsMatchStatus(jobs[j])
    /\ \E j \in DOMAIN jobs :
          /\ jobs[j].status = JobStatus.PROCESSED
          /\ jobs[j].accountsDetected # Null /\ jobs[j].processedData # Null
    /\ \E j \in DOMAIN jobs :
          jobs[j].status = JobStatus.FAILED /\ jobs[j].errorMessage # Null

\* C8: an updateJobStatus call that fails (unknown job, unknown status or
\* disallowed transition) leaves every stored job as it was, whatever
\* additionalData it carried.
C8_FailedUpdateChangesNothing ==
    [][(lastOp'.op = "updateJobStatus" /\ ~lastOp'.ok)
          => jobs' = jobs /\ nextId' = nextId]_vars

\* An update carrying data its status does not go with was rejected by the
\* transition check while two jobs were stored.
C8_Witness ==
    /\ lastOp.op = "updateJobStatus" /\ ~lastOp.ok /\ ~lastOp.disciplined
    /\ lastOp.error = "Invalid status transition"
    /\ Cardinality(DOMAIN jobs) = 2

\* C9: a processStatement request that ended without advancing the job was
\* rejected with JOB_NOT_FOUND, or with INVALID_JOB_STATUS naming a status, and
\* invoked no collaborator.
C9_RejectionNamesTheCause ==
    \A c \in Calls :
       (calls[c].pc = "done" /\ ~calls[c].advanced)
          => /\ calls[c].log = <<>>
             /\ \/ calls[c].response.code = "JOB_NOT_FOUND"
                \/ /\ calls[c].response.code = "INVALID_JOB_STATUS"
                   /\ calls[c].response.status \in JobStatusValues

\* C10: a request that answered 200 answered { jobId, PROCESSED, accountsDetected }
\* with accountsDetected the number of accounts of the validated statement
\* data, and the job, while stored, is PROCESSED with that accountsDetected and
\* that data as processedData.
C10_SuccessStoresWhatItReports ==
    \A c \in Calls :
       calls[c].response.kind = "ok"
          => /\ calls[c].response.jobId = calls[c].jobId
             /\ calls[c].response.status = JobStatus.PROCESSED
             /\ calls[c].jobId \in DOMAIN heap
             /\ \E data \in SampleData :
                   /\ validateNormalizedData(data).ok
                   /\ heap[calls[c].jobId] = validateNormalizedData(data).after
             /\ calls[c].response.accountsDetected
                   = Num(Len(heap[calls[c].jobId].accounts.items))
             /\ calls[c].jobId \in DOMAIN jobs
                   => /\ jobs[calls[c].jobId].status = JobStatus.PROCESSED
                      /\ jobs[calls[c].jobId].accountsDetected
                            = calls[c].response.accountsDetected
                      /\ jobs[calls[c].jobId].processedData = Obj(calls[c].jobId)

\* A request answered 200 for a statement of two accounts and the job is stored.
C10_Witness ==
    \E c \in Calls :
       /\ calls[c].response.kind = "ok"
       /\ calls[c].response.accountsDetected = Num(2)
       /\ calls[c].jobId \in DOMAIN jobs

\* A field is populated when it is not null once normalized (an amount that
\* cannot be normalized is populated too).
Populated(v) == validateMonetaryAmount(v).value # Null

BothPopulated(transaction) ==
    transaction.isObject /\ Populated(transaction.debit) /\ Populated(transaction.credit)

\* The accounts of `data` that have a transaction with both fields populated.
ConflictAccounts(data) ==
    {a \in DOMAIN data.accounts.items :
        \E i \in DOMAIN data.accounts.items[a].transactions.items :
            BothPopulated(data.accounts.items[a].transactions.items[i])}

Contains(message, piece) == \E i \in DOMAIN message : message[i] = piece

DebitCreditMessage == "Transaction cannot have both debit and credit values populated"

\* Every stored result of a PROCESSED job has no transaction with both fields
\* non-null.
StoredResultsAreExclusive ==
    \A id \in DOMAIN jobs :
        jobs[id].status = JobStatus.PROCESSED =>
            /\ id \in DOMAIN heap
            /\ \A a \in DOMAIN heap[id].accounts.items :
                 \A i \in DOMAIN heap[id].accounts.items[a].transactions.items :
                    LET tx == heap[id].accounts.items[a].transactions.items[i]
                    IN tx.debit = Null \/ tx.credit = Null

\* Stage 4 on `data` ended the request c with the validation failure: the job,
\* when still stored, is FAILED with a validation message and has no result.
ValidationFailed(c) ==
    /\ calls'[c].pc = "done"
    /\ calls'[c].response.code = "DATA_VALIDATION_FAILED"
    /\ heap' = heap
    /\ calls[c].jobId \notin DOMAIN heap'
    /\ calls[c].jobId \in DOMAIN jobs =>
         /\ jobs'[calls[c].jobId].status = JobStatus.FAILED
         /\ jobs'[calls[c].jobId].processedData = Null
         /\ jobs'[calls[c].jobId].errorMessage.t = "str"
         /\ Contains(jobs'[calls[c].jobId].errorMessage.s, "Data validation failed: ")

NamesDebitAndCredit(c) ==
    calls[c].jobId \in DOMAIN jobs =>
        Contains(jobs'[calls[c].jobId].errorMessage.s, DebitCreditMessage)

\* The checks that come before the first conflicting account of `data` pass.
ConflictIsFirstFailure(data) ==
    LET k == CHOOSE a \in ConflictAccounts(data) : \A b \in ConflictAccounts(data) : a <= b
    IN validateNormalizedData(
          [data EXCEPT !.accounts.items = SubSeq(data.accounts.items, 1, k - 1)]).ok

Expired(job, t) ==
    \/ job.status = JobStatus.PROCESSED /\ t - job.updatedAt > completedJobRetentionMs
    \/ job.status = JobStatus.FAILED /\ t - job.updatedAt > failedJobRetentionMs

\* C12: a step of the sweep removes the record or the file of a stored job only
\* if the job is PROCESSED and older than the completed retention or FAILED and
\* older than the failed retention, at the time the sweep took; every other
\* stored job is left as it is with its file; and when the sweep deletes the
\* job it examines, the record and the file are both gone and a lookup of the
\* id fails with "Job not found".
C12_SweepDeletesOnlyExpiredJobs ==
    [][sweep' # sweep =>
         /\ \A j \in DOMAIN jobs :
               IF Expired(jobs[j], sweep.now)
               THEN j \in DOMAIN jobs' => jobs'[j] = jobs[j]
               ELSE /\ j \in DOMAIN jobs' /\ jobs'[j] = jobs[j]
                    /\ jobs[j].s3Key \in files => jobs[j].s3Key \in files'
         /\ sweep'.stats.jobsDeleted > sweep.stats.jobsDeleted =>
               LET job == sweep.allJobs[sweep.i]
               IN /\ Expired(job, sweep.now)
                  /\ job.jobId \notin DOMAIN jobs'
                  /\ job.s3Key \notin files'
                  /\ getJobResult(jobs', job.jobId) = [ok |-> FALSE, error |-> "Job not found"]]_vars

\* A sweep has ended having deleted an expired PROCESSED job with its file,
\* while the other job, which it did not reach, is still stored with its file.
C12_Witness ==
    /\ sweep.pc = "idle" /\ sweep.stats.jobsDeleted = 1 /\ Len(sweep.allJobs) = 2
    /\ \E k \in DOMAIN sweep.allJobs :
          /\ k < sweep.i
          /\ sweep.allJobs[k].status = JobStatus.PROCESSED
          /\ sweep.now - sweep.allJobs[k].updatedAt > completedJobRetentionMs
          /\ sweep.allJobs[k].jobId \notin DOMAIN jobs
          /\ sweep.allJobs[k].s3Key \notin files
          /\ ~getJobResult(jobs, sweep.allJobs[k].jobId).ok
    /\ Cardinality(DOMAIN jobs) = 1 /\ Cardinality(files) = 1

\* The sweep that ended went through its whole list, or stopped at the limit
\* of jobs per sweep.
SweepWentOn ==
    (sweep.pc = "idle" /\ sweep.i > 0) =>
        \/ sweep.i > Len(sweep.allJobs)
        \/ sweep.processedCount >= maxJobsPerCleanup

\* Every job the sweep has passed is counted as processed or is in the error
\* list under its id, and the eligible ones that are not in the error list are
\* deleted.
SweepAccountsForEveryJob ==
    sweep.i > 0 =>
        /\ Len(sweep.stats.errors) + sweep.stats.jobsProcessed = sweep.i - 1
        /\ \A k \in 1..(sweep.i - 1) :
              LET job == sweep.allJobs[k]
              IN IF shouldCleanupJob(job, sweep.now)
                 THEN \/ \E e \in DOMAIN sweep.stats.errors : sweep.stats.errors[e] = job.jobId
                      \/ job.jobId \notin DOMAIN jobs /\ job.s3Key \notin files
                 ELSE \A e \in DOMAIN sweep.stats.errors : sweep.stats.errors[e] # job.jobId

\* C13: when the cleanup of an eligible job fails during a sweep, the failure
\* is added to the error list under the job's id, nothing is deleted in that
\* step, and the sweep goes on with the next listed job: it ends only past the
\* end of its list or at the limit of jobs per sweep, with every eligible job
\* it passed deleted or recorded as failed.
C13_FailedJobDoesNotAbortSweep ==
    /\ [](SweepWentOn /\ SweepAccountsForEveryJob)
    /\ [][(sweep.pc = "deleteFile" /\ sweep' # sweep
            /\ sweep'.stats.jobsDeleted = sweep.stats.jobsDeleted)
           => /\ sweep'.stats.errors = Append(sweep.stats.errors, sweep.allJobs[sweep.i].jobId)
              /\ sweep'.i > sweep.i
              /\ sweep'.pc \in {"deleteFile", "idle"}
              /\ jobs' = jobs /\ files' = files]_vars

\* A sweep of two expired jobs has ended: the cleanup of the first failed and is
\* recorded under its id, the second was deleted with its file.
C13_Witness ==
    /\ sweep.pc = "idle" /\ Len(sweep.allJobs) = 2 /\ sweep.i = 3
    /\ sweep.stats.errors = <<sweep.allJobs[1].jobId>>
    /\ sweep.allJobs[1].jobId \in DOMAIN jobs
    /\ sweep.stats.jobsDeleted = 1
    /\ sweep.allJobs[2].jobId \notin DOMAIN jobs
    /\ sweep.allJobs[2].s3Key \notin files

\* The calls of startScheduledCleanup that are running their initial sweep.
InitialSweeps == {k \in Starters : scheduler.starts[k] = "sweep"}

\* C14: at most one recurring timer exists, and while no stop has been called
\* at most one call of startScheduledCleanup runs an initial sweep: a call made
\* while an earlier one is in effect sets no timer and runs no sweep.
C14_AtMostOneTimer ==
    /\ Cardinality(scheduler.timers) <= 1
    /\ ~scheduler.isShuttingDown =>
          /\ Cardinality(InitialSweeps) <= 1
          /\ Cardinality(InitialSweeps) = 1 => scheduler.timers = {}

\* C15: once stopScheduledCleanup has returned, and until the next call of
\* startScheduledCleanup, no timer is kept in cleanupIntervals, no timer is
\* active and no timer callback runs a sweep; and a stop that finds nothing to
\* stop leaves the intervals and the timers as they are.
C15_StopLeavesNoTimer ==
    /\ [](scheduler.stopped =>
            scheduler.timers = {} /\ scheduler.cleanupIntervals = <<>>)
    /\ [][/\ scheduler.stopped => scheduler'.timerSweeps = scheduler.timerSweeps
          /\ (StopScheduledCleanup /\ scheduler.cleanupIntervals = <<>>)
                => scheduler'.timers = scheduler.timers]_vars

\* The recognized fields of the three levels.
StatementFields == {"fileName", "accounts"}
AccountFields ==
    {"bankName", "accountHolderName", "accountNumber", "accountType", "currency",
     "statementStartDate", "statementEndDate", "openingBalance", "closingBalance",
     "transactions"}
TransactionFields == {"date", "description", "debit", "credit", "balance"}

\* The object with the properties outside `fields` taken away.
Restrict(o, fields) == [f \in DOMAIN o \cap (fields \cup {"isObject"}) |-> o[f]]

\* `data` (an object with an accounts array of objects with transactions
\* arrays) with `change` applied to the statement, each account and each
\* transaction.
AtEveryLevel(data, change(_, _)) ==
    change([data EXCEPT !.accounts.items =
              [a \in DOMAIN @ |->
                 change([@[a] EXCEPT !.transactions.items =
                           [i \in DOMAIN @ |-> change(@[i], TransactionFields)]],
                        AccountFields)]],
           StatementFields)

AdHocAdded(o, fields) == [adHocKey |-> Str(<<"x">>), confidence |-> Num(1)] @@ o

\* Payloads that agree with `data` on every recognized field: `data` without
\* any other field, and `data` with other fields added at the three levels.
Agreeing(data) == {AtEveryLevel(data, Restrict), AtEveryLevel(data, AdHocAdded)}

\* C16: the data a get-result response carries is the data it would carry for
\* any payload that agrees with the stored one on the recognized fields, and
\* its keys are the recognized fields of the three levels and nothing else.
C16_ResponseDependsOnRecognizedFields ==
    result.kind = "ok" =>
        /\ \A other \in Agreeing(heap[result.jobId]) :
              getResult(jobs, (result.jobId :> other) @@ heap, result.jobId) = result
        /\ DOMAIN result.data = StatementFields
        /\ \A a \in DOMAIN result.data.accounts :
              /\ DOMAIN result.data.accounts[a] = AccountFields
              /\ \A i \in DOMAIN result.data.accounts[a].transactions :
                    DOMAIN result.data.accounts[a].transactions[i] = TransactionFields

\* A response was sent for a job whose stored data has fields of its own at the
\* three levels.
C16_Witness ==
    /\ result.kind = "ok"
    /\ "rawTextractBlocks" \in DOMAIN heap[result.jobId]
    /\ "confidence" \in DOMAIN heap[result.jobId].accounts.items[1]
    /\ "sourceBlockId" \in DOMAIN heap[result.jobId].accounts.items[1].transactions.items[1]
    /\ AtEveryLevel(heap[result.jobId], Restrict) # heap[result.jobId]

\* The field f of the output is the stored value when the stored object has a
\* non-null f, and null when f is absent or null.
Carried(stored, out, f) ==
    out[f] = IF f \in DOMAIN stored /\ stored[f] \notin {Null, Undef} THEN stored[f] ELSE Null

\* C17: every recognized field of the stored data that is present reaches the
\* get-result output with exactly its stored value, whatever the value, and
\* the output has null only where the stored field is absent or null.
C17_OutputCarriesStoredValues ==
    result.kind = "ok" =>
        LET stored == heap[result.jobId]
        IN /\ Carried(stored, result.data, "fileName")
           /\ Len(result.data.accounts) = Len(stored.accounts.items)
           /\ \A a \in DOMAIN stored.accounts.items :
                 /\ \A f \in AccountFields \ {"transactions"} :
                       Carried(stored.accounts.items[a], result.data.accounts[a], f)
                 /\ Len(result.data.accounts[a].transactions)
                      = Len(stored.accounts.items[a].transactions.items)
                 /\ \A i \in DOMAIN stored.accounts.items[a].transactions.items :
                       \A f \in TransactionFields :
                          Carried(stored.accounts.items[a].transactions.items[i],
                                  result.data.accounts[a].transactions[i], f)

\* C18: a get-result request answers with data only for a PROCESSED job; for
\* a job that is UPLOADED, PROCESSING or FAILED it fails with JOB_NOT_PROCESSED
\* carrying the job's status and its stored errorMessage; for an id that is
\* not stored it fails with JOB_NOT_FOUND; and it changes neither the jobs,
\* nor their data, nor the files.
C18_ResultOnlyForProcessedJobs ==
    [][\A j \in JobIds :
         GetResult(j) =>
            /\ jobs' = jobs /\ heap' = heap /\ files' = files /\ nextId' = nextId
            /\ result'.jobId = j
            /\ IF j \notin DOMAIN jobs
               THEN result'.kind = "error" /\ result'.code = "JOB_NOT_FOUND"
               ELSE IF jobs[j].status # JobStatus.PROCESSED
               THEN /\ result'.kind = "error" /\ result'.code = "JOB_NOT_PROCESSED"
                    /\ result'.currentStatus = jobs[j].status
                    /\ result'.errorMessage = jobs[j].errorMessage
                    /\ result'.data = <<>>
               ELSE result'.kind = "ok"]_vars

\* A get-result request for a FAILED job was refused with the job's status and
\* its error message, and the job is stored as it was.
C18_Witness ==
    /\ result.kind = "error" /\ result.code = "JOB_NOT_PROCESSED"
    /\ result.jobId \in DOMAIN jobs
    /\ jobs[result.jobId].status = JobStatus.FAILED
    /\ result.currentStatus = JobStatus.FAILED
    /\ result.errorMessage # Null
    /\ result.errorMessage = jobs[result.jobId].errorMessage

\* The analysis collaborator failed in request c: the request ended with the
\* analysis failure, or went on with the mock response made in its place.
AnalysisFailed(c) ==
    \/ calls[c].response.code = "TEXTRACT_ANALYSIS_FAILED"
    \/ Contains(calls[c].log, "createMockTextractResponse")

\* C19: when the analysis collaborator fails, whatever the configuration, the
\* request ends with TEXTRACT_ANALYSIS_FAILED, the normalization collaborator
\* is never called, and the job, while stored, is FAILED with the analysis
\* error message.
C19_AnalysisFailureFailsTheJob ==
    \A c \in Calls :
        AnalysisFailed(c) =>
            /\ calls[c].pc = "done"
            /\ calls[c].response.code = "TEXTRACT_ANALYSIS_FAILED"
            /\ ~Contains(calls[c].log, "normalizeTextractData")
            /\ calls[c].jobId \in DOMAIN jobs =>
                  /\ jobs[calls[c].jobId].status = JobStatus.FAILED
                  /\ jobs[calls[c].jobId].errorMessage.t = "str"
                  /\ Contains(jobs[calls[c].jobId].errorMessage.s, "Textract analysis failed: ")

\* The day, month and year written denote a day of the calendar.
RealDate(w) == w.month \in 1..12 /\ w.day \in 1..DaysInMonth(w.year, w.month)

\* C20: validateAndFormatDate fails on every string of an accepted form whose
\* day, month and year are no calendar date, and when it succeeds the date it
\* gives is the day, month and year written in the string.
C20_UnrealDatesAreRejected ==
    probe.fn = "validateAndFormatDate" =>
        /\ ~RealDate(probe.written) => ~probe.output.isValid
        /\ probe.output.isValid =>
              probe.output.value =
                 Str(IntToChars(probe.written.year) \o <<"-">>
                     \o PadStart2(probe.written.month) \o <<"-">>
                     \o PadStart2(probe.written.day))

\* C21: when validateTransaction or validateAccountTransactions has returned,
\* with success or with a failure, every field of every transaction it was
\* given has the value it had before the call.
C21_ValidatorsLeaveArgumentsAlone ==
    probe.fn \in {"validateTransaction", "validateAccountTransactions"} =>
        probe.output.after = probe.input

\* C22: when normalizeTextractData has ended and every response of the AI
\* backend failed schema validation, it has failed with 'Failed to normalize
\* Textract data' after exactly two calls; when the first response failed
\* schema validation and the second passed, it has succeeded after exactly two.
C22_TwoCallsOnSchemaFailure ==
    (gemini.pc = "done" /\ gemini.responses # <<>>) =>
        /\ (\A i \in DOMAIN gemini.responses : gemini.responses[i] = "invalid") =>
              /\ ~gemini.ok
              /\ gemini.error = "Failed to normalize Textract data: "
              /\ Len(gemini.responses) = 2
        /\ (gemini.responses[1] = "invalid" /\ Len(gemini.responses) >= 2
              /\ gemini.responses[2] = "valid") =>
              gemini.ok /\ Len(gemini.responses) = 2

\* The collaborators of the pipeline, in the order of its stages.
StageOrder == <<"getFile", "analyzeDocument", "normalizeTextractData">>

\* The collaborator invocations of request c, in order.
CollaboratorCalls(c) ==
    SelectSeq(calls[c].log, LAMBDA e : e \in {StageOrder[i] : i \in DOMAIN StageOrder})

\* C23: over all process calls on a job, the collaborators are invoked at most
\* once each and in the order storage, analysis, normalization; normalization
\* is invoked only in a call whose analysis succeeded; and a call that ended
\* with a stage failure invoked nothing after the failed stage.
C23_StagesOnceInOrderAfterSuccess ==
    \A c \in Calls :
        /\ CollaboratorCalls(c) = SubSeq(StageOrder, 1, Len(CollaboratorCalls(c)))
        /\ \A d \in Calls \ {c} :
              (calls[d].jobId = calls[c].jobId /\ calls[c].log # <<>>) => calls[d].log = <<>>
        /\ Contains(calls[c].log, "normalizeTextractData") => ~AnalysisFailed(c)
        /\ calls[c].response.code = "S3_RETRIEVAL_FAILED" => CollaboratorCalls(c) = <<"getFile">>
        /\ calls[c].response.code = "TEXTRACT_ANALYSIS_FAILED" =>
              CollaboratorCalls(c) = <<"getFile", "analyzeDocument">>

\* Request c has passed the check of the status against UPLOADED.
PassedCheck(c) ==
    /\ calls[c].pc \notin {"idle", "check"}
    /\ calls[c].response.code \notin {"JOB_NOT_FOUND", "INVALID_JOB_STATUS"}

C25_ExpiredJobsAreEventuallyDeleted ==
    \A j \in JobIds :
        (j \in DOMAIN jobs /\ Expired(jobs[j], now)) ~> (j \notin DOMAIN jobs)

\* C26: a job record that a cleanup operation (the sweep, cleanupJobById,
\* cleanupFailedJobs, cleanupCompletedJobs) has removed has no stored file
\* left: the record goes only after deleteFile has returned, never when it
\* threw or was not called.
C26_RecordGoesAfterItsFile ==
    /\ [](\A j \in 1..(nextId - 1) : j \notin DOMAIN jobs => S3Key(j) \notin files)
    /\ [][\A j \in DOMAIN jobs : j \notin DOMAIN jobs' => S3Key(j) \notin files']_vars

\* The sweep has removed a job and its file, while a cleanupJobById whose
\* deleteFile threw has left its job and file in place.
C26_Witness ==
    /\ sweep.pc = "idle" /\ sweep.stats.jobsDeleted = 1
    /\ \E j \in 1..(nextId - 1) : j \notin DOMAIN jobs /\ S3Key(j) \notin files
    /\ ondemand.op = "cleanupJobById" /\ ondemand.result = "error"
    /\ ondemand.jobId \in DOMAIN jobs /\ S3Key(ondemand.jobId) \in files

\* C27: the counts of the cleanup operations match what they removed, under
\* any interleaving: each time a sweep adds one to its deleted count it has
\* removed that job's record itself, and a cleanupJobById call does not return
\* true for a job id for which another caller's call has returned true.
C27_CountsMatchRemovals ==
    /\ [][sweep'.stats.jobsDeleted > sweep.stats.jobsDeleted
            => /\ sweep.allJobs[sweep.i].jobId \in DOMAIN jobs
               /\ sweep.allJobs[sweep.i].jobId \notin DOMAIN jobs']_vars
    /\ [][(/\ ondemand.op = "cleanupJobById" /\ ondemand.result = "true"
           /\ byId.pc = "deleteFile" /\ byId.job.jobId = ondemand.jobId
           /\ byId'.pc = "idle")
            => byId'.result # "true"]_vars

\* C28: a job is PROCESSING only while the request that made it so is under
\* way: once that request has ended, by answering or by throwing, the job is
\* PROCESSED, FAILED or no longer stored.
C28_ProcessingOnlyWhileInFlight ==
    /\ \A c \in Calls :
          (calls[c].pc = "done" /\ calls[c].advanced /\ calls[c].jobId \in DOMAIN jobs)
             => jobs[calls[c].jobId].status \in {JobStatus.PROCESSED, JobStatus.FAILED}
    /\ \A j \in DOMAIN jobs :
          jobs[j].status = JobStatus.PROCESSING
             => \E c \in Calls : calls[c].jobId = j /\ calls[c].advanced /\ calls[c].pc # "done"

\* Two requests have ended after moving their jobs to PROCESSING: one threw a
\* stage failure and its job is FAILED, the other's job was removed meanwhile.
C28_Witness ==
    \E c \in Calls, d \in Calls :
        /\ calls[c].pc = "done" /\ calls[c].advanced
        /\ calls[c].response.code = "GEMINI_NORMALIZATION_FAILED"
        /\ calls[c].jobId \in DOMAIN jobs
        /\ jobs[calls[c].jobId].status = JobStatus.FAILED
        /\ calls[d].pc = "done" /\ calls[d].advanced
        /\ calls[d].jobId \notin DOMAIN jobs

\* The job ids given out so far that are no longer stored.
Removed == {j \in 1..(nextId - 1) : j \notin DOMAIN jobs}

\* C29: a removed job never reappears: a status write or a lookup on its id
\* fails with 'Job not found', and a step of a request whose job was removed
\* while it was under way leaves every stored job as it was.
C29_RemovedJobsStayRemoved ==
    /\ [](\A j \in Removed :
            /\ getJobResult(jobs, j).error = "Job not found"
            /\ \A status \in {JobStatus.PROCESSED, JobStatus.FAILED} :
                  LET r == updateJobStatus(jobs, j, status, NoData, now)
                  IN ~r.ok /\ r.error = "Job not found" /\ r.jobs = jobs)
    /\ [][\A j \in Removed : j \notin DOMAIN jobs']_vars
    /\ [][\A c \in Calls :
            (calls[c].advanced /\ calls[c].jobId \in Removed /\ calls'[c] # calls[c])
               => jobs' = jobs]_vars

\* cleanupJobById removed a job under a request, whose write of PROCESSED then
\* failed; the other job is still stored.
C29_Witness ==
    \E c \in Calls :
        /\ calls[c].pc = "done" /\ calls[c].advanced
        /\ calls[c].jobId \in Removed
        /\ calls[c].response.code = "DATA_VALIDATION_FAILED"
        /\ byId.result = "true"
        /\ Cardinality(DOMAIN jobs) = 1

\* C30: once stopScheduledCleanup has been called the flag stays set and no
\* timer callback runs a sweep again; a startScheduledCleanup made afterwards
\* still runs its initial sweep and registers its timer, so that
\* cleanupIntervals has 'main' (status reports schedulerRunning = true).
C30_NoTimerSweepAfterStop ==
    /\ [][scheduler.isShuttingDown
            => /\ scheduler'.isShuttingDown
               /\ scheduler'.timerSweeps = scheduler.timerSweeps]_vars
    /\ [][\A k \in Starters :
            /\ (scheduler.isShuttingDown /\ scheduler.cleanupIntervals = <<>>
                  /\ scheduler.starts[k] = "idle" /\ scheduler'.starts[k] # "idle")
                 => scheduler'.starts[k] = "sweep"
            /\ (scheduler.isShuttingDown /\ scheduler.starts[k] = "sweep"
                  /\ scheduler'.starts[k] = "started")
                 => k \in scheduler'.timers /\ scheduler'.cleanupIntervals = <<k>>]_vars

\* After a stop that cleared an earlier timer, a later start has registered its
\* timer, and a tick of that timer was skipped.
C30_Witness ==
    /\ scheduler.isShuttingDown
    /\ scheduler.ticksSkipped > 0
    /\ \E k \in Starters, d \in Starters :
          /\ d < k
          /\ scheduler.starts[d] = "started" /\ d \notin scheduler.timers
          /\ scheduler.starts[k] = "started" /\ scheduler.timers = {k}
          /\ scheduler.cleanupIntervals = <<k>>
====
